---- MODULE Spec2Model ----
(***************************************************************************)
(* Identity microservice (baajur/users): the sign-in / sign-up pipelines   *)
(* of services/jwt and services/users over the User and Identity stores,   *)
(* the password hash format, the merge of a provider profile into a User,  *)
(* the access-control layer of repos/acl and the roles cache behind it.    *)
(*                                                                         *)
(* Strings are sequences of one-character strings, bytes are 0..255.       *)
(***************************************************************************)
EXTENDS Integers, Sequences, FiniteSets, TLC

VARIABLES users, identities, req, pv, mg, acl, user_roles, cached_roles, last_get,
          router, listing, factory

\* the state of the authorization layer and of the merge under test
authvars == <<mg, acl, user_roles, cached_roles, last_get>>

\* the state of the HTTP layer (route parser, GET /users) and of the
\* repository factory's call chain
webvars == <<router, listing, factory>>

vars == <<users, identities, req, pv, mg, acl, user_roles, cached_roles, last_get,
          router, listing, factory>>

(***************************************************************************)
(* Bounds                                                                  *)
(***************************************************************************)
\* number of request pipelines that run (concurrently) in one behaviour
NumReq == 2
\* longest clear password explored by the password round trip
MaxPwLen == 2
\* longest salt explored by the password round trip
MaxSaltLen == 2
\* most roles one user holds
MaxRoles == 2
\* longest list of target contexts passed to can
MaxCtx == 2
\* most rules registered in a route parser built rule by rule
MaxRules == 3
\* longest run of digits explored after a literal of the route table
MaxIdDigits == 2

\* pairs in a query string
MaxPairs == 2

\* calls of the repository factory in progress at one time
MaxDepth == 6

NULL == "NULL"

(***************************************************************************)
(* Strings and bytes                                                       *)
(***************************************************************************)
RECURSIVE SeqsUpTo(_, _)
SeqsUpTo(S, n) ==
    IF n = 0 THEN {<<>>}
    ELSE LET shorter == SeqsUpTo(S, n - 1)
         IN  shorter \cup {Append(s, c) : s \in {t \in shorter : Len(t) = n - 1}, c \in S}

\* ASCII code of the characters the model uses (String::as_bytes)
CharCode(c) ==
    CASE c = "." -> 46
      [] c = "!" -> 33
      [] c = "1" -> 49
      [] c = "2" -> 50
      [] c = "p" -> 112
      [] c = "q" -> 113
      [] OTHER -> 63

as_bytes(s) == [i \in 1..Len(s) |-> CharCode(s[i])]

\* str::split(sep): the pieces between the separators, always at least one
RECURSIVE split(_, _)
split(s, sep) ==
    IF \A i \in 1..Len(s) : s[i] # sep THEN <<s>>
    ELSE LET i == CHOOSE k \in 1..Len(s) : s[k] = sep /\ \A j \in 1..(k - 1) : s[j] # sep
         IN  <<SubSeq(s, 1, i - 1)>> \o split(SubSeq(s, i + 1, Len(s)), sep)

\* the standard base64 alphabet
B64 ==
    << "A","B","C","D","E","F","G","H","I","J","K","L","M","N","O","P",
       "Q","R","S","T","U","V","W","X","Y","Z","a","b","c","d","e","f",
       "g","h","i","j","k","l","m","n","o","p","q","r","s","t","u","v",
       "w","x","y","z","0","1","2","3","4","5","6","7","8","9","+","/" >>

B64Char(n) == B64[n + 1]

B64Index(c) == (CHOOSE i \in 1..64 : B64[i] = c) - 1

IsB64Char(c) == \E i \in 1..64 : B64[i] = c

\* base64::encode: three bytes to four characters, '=' padding
RECURSIVE encode(_)
encode(b) ==
    IF Len(b) = 0 THEN <<>>
    ELSE IF Len(b) = 1 THEN
        LET n == b[1] * 65536
        IN  <<B64Char(n \div 262144), B64Char((n \div 4096) % 64), "=", "=">>
    ELSE IF Len(b) = 2 THEN
        LET n == b[1] * 65536 + b[2] * 256
        IN  <<B64Char(n \div 262144), B64Char((n \div 4096) % 64),
              B64Char((n \div 64) % 64), "=">>
    ELSE
        LET n == b[1] * 65536 + b[2] * 256 + b[3]
        IN  <<B64Char(n \div 262144), B64Char((n \div 4096) % 64),
              B64Char((n \div 64) % 64), B64Char(n % 64)>>
            \o encode(SubSeq(b, 4, Len(b)))

\* one group of four characters back to one, two or three bytes
DecodeQuad(q) ==
    LET pad == IF q[4] # "=" THEN 0 ELSE IF q[3] # "=" THEN 1 ELSE 2
        v(i) == IF q[i] = "=" THEN 0 ELSE B64Index(q[i])
        n == v(1) * 262144 + v(2) * 4096 + v(3) * 64 + v(4)
        all == <<n \div 65536, (n \div 256) % 256, n % 256>>
    IN  SubSeq(all, 1, 3 - pad)

RECURSIVE DecodeQuads(_)
DecodeQuads(t) ==
    IF Len(t) = 0 THEN <<>>
    ELSE DecodeQuad(SubSeq(t, 1, 4)) \o DecodeQuads(SubSeq(t, 5, Len(t)))

\* the shapes base64::decode accepts: groups of four, padding only at the end
B64WellFormed(t) ==
    /\ Len(t) % 4 = 0
    /\ \A i \in 1..Len(t) :
          \/ IsB64Char(t[i])
          \/ /\ t[i] = "="
             /\ i >= Len(t) - 1
             /\ i = Len(t) \/ t[Len(t)] = "="

\* base64::decode: the bytes, or an error for text that is not base64
decode(t) ==
    IF B64WellFormed(t) THEN [ok |-> TRUE, bytes |-> DecodeQuads(t)]
    ELSE [ok |-> FALSE, bytes |-> <<>>]

\* Sha3_256 as an injective function on byte strings: the bytes
\* complemented, in reverse order (the digest's width is not modelled)
Sha3_256(m) == [i \in 1..Len(m) |-> 255 - m[Len(m) + 1 - i]]

(***************************************************************************)
(* Errors                                                                  *)
(***************************************************************************)
\* the error of a stored password that does not split or does not decode
ErrWrongFormat == <<"Validate", "password", "Password in db has wrong format">>

(***************************************************************************)
(* Password hash format                                                    *)
(***************************************************************************)
\* password_create with the salt drawn by rand::random made a parameter
password_create(clear_password, salt) ==
    LET pass == clear_password \o salt
        out == Sha3_256(as_bytes(pass))
        computed_hash == encode(out)
    IN  computed_hash \o <<".">> \o salt

password_verify_no_salt(db_hash, clear_password) ==
    LET v == split(db_hash, ".")
    IN  IF Len(v) # 2 THEN [ok |-> FALSE, err |-> ErrWrongFormat]
        ELSE LET out == Sha3_256(as_bytes(clear_password))
                 computed_hash == decode(v[1])
             IN  IF ~computed_hash.ok THEN [ok |-> FALSE, err |-> ErrWrongFormat]
                 ELSE [ok |-> TRUE, value |-> (computed_hash.bytes = out)]

password_verify(db_hash, clear_password) ==
    LET v == split(db_hash, ".")
    IN  IF Len(v) # 2 THEN [ok |-> FALSE, err |-> ErrWrongFormat]
        ELSE LET salt == v[2]
                 pass == clear_password \o salt
                 out == Sha3_256(as_bytes(pass))
                 computed_hash == decode(v[1])
             IN  IF ~computed_hash.ok THEN [ok |-> FALSE, err |-> ErrWrongFormat]
                 ELSE [ok |-> TRUE, value |-> (computed_hash.bytes = out)]


(***************************************************************************)
(* Domain values                                                           *)
(***************************************************************************)
Emails == {"a@x.com", "b@x.com"}

\* config.jwt.secret_key, loaded once at startup
Secret == "secret"

\* the clear passwords a caller submits to /jwt/email
ClearPasswords == {<<"p">>, <<"q">>}

\* Option<String>
None == [some |-> FALSE]

Some(x) == [some |-> TRUE, val |-> x]

\* values of identities.password (Nullable<VarChar>) found in the database
\* for an Email identity: a well-formed hash of "p", no separator, two
\* separators, a first part that is not base64, and SQL NULL
StoredPasswords ==
    { Some(password_create(<<"p">>, <<"1", "2">>)),
      Some(<<"p", "q">>),
      Some(<<"p", ".", "1", ".", "2">>),
      Some(<<"!", ".", "1">>),
      None }

\* Provider passed by create_token_google / create_token_facebook
ProviderOf(kind) == IF kind = "google" THEN "Google" ELSE "Facebook"

\* what the provider's info URL answers for the account behind the token
GoogleProfile(email) ==
    [email |-> email, first_name |-> "Gname", last_name |-> "Gfamily", gender |-> "Undefined"]

FacebookProfile(email) ==
    [email |-> email, first_name |-> "Ffirst", last_name |-> "Flast", gender |-> "Male"]

ProfileOf(kind, email) ==
    IF kind = "google" THEN GoogleProfile(email) ELSE FacebookProfile(email)

\* the body of POST /users
SignupPayload(email) ==
    [email |-> email, phone |-> "555", first_name |-> NULL, last_name |-> "Slast",
     middle_name |-> "Smid", gender |-> "Female", birthdate |-> "1990"]

\* the account the database may already hold when the service starts
SeedUser ==
    [email |-> "a@x.com", phone |-> NULL, first_name |-> "Ufirst", last_name |-> NULL,
     middle_name |-> NULL, gender |-> "Undefined", birthdate |-> NULL]

SeedIdentity(stored) ==
    [user_id |-> 1, email |-> "a@x.com", password |-> stored, provider |-> "Email"]

(***************************************************************************)
(* Stores: the users and identities tables behind UsersRepo and            *)
(* IdentitiesRepo.  A user's id is its position in users.                  *)
(***************************************************************************)
UsersRepo_email_exists(email) == \E i \in 1..Len(users) : users[i].email = email

UsersRepo_find_by_email(email) ==
    CHOOSE i \in 1..Len(users) :
        /\ users[i].email = email
        /\ \A j \in 1..(i - 1) : users[j].email # email

UsersRepo_create(new_user) == Append(users, new_user)

UsersRepo_update(user_id, update_user) == [users EXCEPT ![user_id] = update_user]

IdentitiesRepo_email_provider_exists(email, provider) ==
    \E i \in 1..Len(identities) :
        identities[i].email = email /\ identities[i].provider = provider

IdentitiesRepo_find_by_email_provider(email, provider) ==
    identities[CHOOSE i \in 1..Len(identities) :
        /\ identities[i].email = email /\ identities[i].provider = provider
        /\ \A j \in 1..(i - 1) :
              ~(identities[j].email = email /\ identities[j].provider = provider)]

IdentitiesRepo_create(email, password, provider, user_id) ==
    Append(identities,
           [user_id |-> user_id, email |-> email, password |-> password, provider |-> provider])

(***************************************************************************)
(* Profile conversions                                                     *)
(***************************************************************************)
\* NewUser::from(profile)
NewUser_from(profile) ==
    [email |-> profile.email, phone |-> NULL, first_name |-> profile.first_name,
     last_name |-> profile.last_name, middle_name |-> NULL, gender |-> profile.gender,
     birthdate |-> NULL]

\* GoogleID::update_user
GoogleID_update_user(profile, user) ==
    [email |-> profile.email,
     phone |-> user.phone,
     first_name |-> IF user.first_name = NULL THEN profile.first_name ELSE user.first_name,
     last_name |-> IF user.last_name = NULL THEN profile.last_name ELSE user.last_name,
     middle_name |-> user.middle_name,
     gender |-> user.gender,
     birthdate |-> user.birthdate]

FacebookID_update_user_overwrite(profile, user) ==
    [email |-> profile.email,
     phone |-> user.phone,
     first_name |-> profile.first_name,
     last_name |-> profile.last_name,
     middle_name |-> user.middle_name,
     gender |-> profile.gender,
     birthdate |-> user.birthdate]

\* FacebookID::update_user
FacebookID_update_user(profile, user) ==
    [email |-> profile.email,
     phone |-> user.phone,
     first_name |-> IF user.first_name = NULL THEN profile.first_name ELSE user.first_name,
     last_name |-> IF user.last_name = NULL THEN profile.last_name ELSE user.last_name,
     middle_name |-> user.middle_name,
     gender |-> IF user.gender = "Undefined" THEN profile.gender ELSE user.gender,
     birthdate |-> user.birthdate]

\* IntoUser::merge_into_user, dispatched on the profile type
merge_into_user(kind, profile, user) ==
    IF kind = "google" THEN GoogleID_update_user(profile, user)
    ELSE FacebookID_update_user(profile, user)

(***************************************************************************)
(* Token                                                                   *)
(***************************************************************************)
JWTPayload_with_exp(email) == [user_email |-> email, exp |-> 0]

\* JWTPayload::new
JWTPayload_new(email) == [user_email |-> email]

\* jsonwebtoken::encode(&Header::default(), &payload, secret)
jwt_encode(tokenpayload, secret) ==
    [header |-> "HS256", payload |-> tokenpayload, signature |-> <<"HS256", tokenpayload, secret>>]

Ok(v) == [kind |-> "ok", value |-> v]

Err(e) == [kind |-> "err", error |-> e]

Panic == [kind |-> "panic"]

\* ProfileService::create_jwt, and the same tail inlined in create_token_email;
\* encode_ok is whether jsonwebtoken::encode succeeds
create_jwt(email, secret, encode_ok) ==
    LET tokenpayload == JWTPayload_new(email)
    IN  IF encode_ok THEN Ok([token |-> jwt_encode(tokenpayload, secret)])
        ELSE Err(<<"Parse", "Couldn't encode jwt">>)


(***************************************************************************)
(* Access control: repos/acl and the ACL a repository is built with        *)
(***************************************************************************)
\* Role; Moderator has no entry in the permission table
Roles == {"Superuser", "User", "Moderator"}

Resources == {"Users", "UserRoles"}

Actions == {"All", "Read", "Delete"}

Scopes == {"All", "Owned"}

UserIds == {5, 7}

\* permission!(resource)
permission1(resource) == [resource |-> resource, action |-> "All", scope |-> "All"]

\* permission!(resource, action)
permission2(resource, action) == [resource |-> resource, action |-> action, scope |-> "All"]

\* permission!(resource, action, scope)
permission3(resource, action, scope) ==
    [resource |-> resource, action |-> action, scope |-> scope]

\* AclImpl::new: the static table Role -> Vec<Permission>
acls ==
    [role \in {"Superuser", "User"} |->
        IF role = "Superuser"
        THEN <<permission1("Users"), permission1("UserRoles")>>
        ELSE <<permission2("Users", "Read"),
               permission3("Users", "All", "Owned"),
               permission3("UserRoles", "Read", "Owned")>>]

\* hashed_acls.get(&role).unwrap_or(&empty)
acls_get(role) == IF role \in DOMAIN acls THEN acls[role] ELSE <<>>

is_in_scope_anyone(res, scope, user_id) == TRUE

\* WithScope for User: is_in_scope(&self, scope, user_id)
is_in_scope(res, scope, user_id) ==
    IF scope = "All" THEN TRUE ELSE res.id = user_id

all_in_scope_nonempty(resources_with_scope, scope, user_id) ==
    /\ Len(resources_with_scope) > 0
    /\ \A i \in 1..Len(resources_with_scope) :
          is_in_scope(resources_with_scope[i], scope, user_id)

\* resources_with_scope.iter().all(|res| res.is_in_scope(&permission.scope, user_id))
all_in_scope(resources_with_scope, scope, user_id) ==
    \A i \in 1..Len(resources_with_scope) :
        is_in_scope(resources_with_scope[i], scope, user_id)

RECURSIVE flat_map(_)

\* roles.into_iter().flat_map(|role| hashed_acls.get(&role).unwrap_or(&empty))
flat_map(roles) ==
    IF roles = <<>> THEN <<>> ELSE acls_get(Head(roles)) \o flat_map(Tail(roles))

AclImpl_can_exact_action(roles, user_id, resource, action, resources_with_scope) ==
    LET matching(permission) ==
            permission.resource = resource /\ permission.action = action
        in_scope(permission) == all_in_scope(resources_with_scope, permission.scope, user_id)
    IN  Len(SelectSeq(SelectSeq(flat_map(roles), matching), in_scope)) > 0

\* AclImpl::can on the roles of the acting user
AclImpl_can(roles, user_id, resource, action, resources_with_scope) ==
    LET matching(permission) ==
            /\ permission.resource = resource
            /\ (permission.action = action \/ permission.action = "All")
        in_scope(permission) == all_in_scope(resources_with_scope, permission.scope, user_id)
        permissions == SelectSeq(SelectSeq(flat_map(roles), matching), in_scope)
    IN  Len(permissions) > 0

\* SystemAcl::can
SystemAcl_can(resource, action, resources_with_scope) == TRUE

\* UnauthorizedACL: the ACL of a request that carries no user id
UnauthorizedACL_can(resource, action, resources_with_scope) == FALSE

\* UserRolesRepo::list_for_user on the role store, which may fail
list_for_user(id, db_ok) ==
    IF db_ok THEN Ok(user_roles[id]) ELSE Err(<<"Repo", "list_for_user">>)

get_roles_superuser_on_error(lookup) ==
    IF lookup.kind = "ok" THEN lookup.value ELSE <<"Superuser">>

\* ReposFactoryImpl::get_roles: .ok().unwrap_or_default() of the lookup
get_roles(lookup) ==
    IF lookup.kind = "ok" THEN lookup.value ELSE <<>>

get_acl_application_for_none(user_id, db_ok) ==
    LET id == IF user_id.some THEN user_id.val ELSE 5
        lookup == list_for_user(id, db_ok)
    IN  [variant |-> "Application", user_id |-> Some(id), roles |-> get_roles(lookup),
         lookups |-> 1, lookup_failed |-> lookup.kind = "err"]

\* ReposFactoryImpl::get_acl
get_acl(user_id, db_ok) ==
    IF ~user_id.some
    THEN [variant |-> "Unauthorized", user_id |-> user_id, roles |-> <<>>,
          lookups |-> 0, lookup_failed |-> FALSE]
    ELSE LET lookup == list_for_user(user_id.val, db_ok)
         IN  [variant |-> "Application", user_id |-> user_id, roles |-> get_roles(lookup),
              lookups |-> 1, lookup_failed |-> lookup.kind = "err"]

\* the ACL of the *_with_sys_acl repositories
SystemACL_default ==
    [variant |-> "System", user_id |-> None, roles |-> <<>>,
     lookups |-> 0, lookup_failed |-> FALSE]

NoCall == [made |-> FALSE, resource |-> "Users", action |-> "All",
           resources_with_scope |-> <<>>, result |-> FALSE]

\* a repository has been built by the factory function built_by
Built(built_by, user_id, a) ==
    acl' = [stage |-> "built", built_by |-> built_by, asked_as |-> user_id,
            acl |-> a, call |-> NoCall]

\* ReposFactory::create_users_repo
create_users_repo ==
    /\ acl.stage = "off"
    /\ \E user_id \in {None} \cup {Some(id) : id \in UserIds}, db_ok \in BOOLEAN :
          Built("create_users_repo", user_id, get_acl(user_id, db_ok))
    /\ UNCHANGED <<users, identities, req, pv, mg, user_roles, cached_roles, last_get, webvars>>

\* ReposFactory::create_user_roles_repo
create_user_roles_repo ==
    /\ acl.stage = "off"
    /\ \E user_id \in {None} \cup {Some(id) : id \in UserIds}, db_ok \in BOOLEAN :
          Built("create_user_roles_repo", user_id, get_acl(user_id, db_ok))
    /\ UNCHANGED <<users, identities, req, pv, mg, user_roles, cached_roles, last_get, webvars>>

\* ReposFactory::create_users_repo_with_sys_acl
create_users_repo_with_sys_acl ==
    /\ acl.stage = "off"
    /\ Built("create_users_repo_with_sys_acl", None, SystemACL_default)
    /\ UNCHANGED <<users, identities, req, pv, mg, user_roles, cached_roles, last_get, webvars>>

\* ReposFactory::create_user_roles_repo_with_sys_acl
create_user_roles_repo_with_sys_acl ==
    /\ acl.stage = "off"
    /\ Built("create_user_roles_repo_with_sys_acl", None, SystemACL_default)
    /\ UNCHANGED <<users, identities, req, pv, mg, user_roles, cached_roles, last_get, webvars>>

\* the resources a call of can is asked about: Users, by id
Contexts == [id : UserIds]

\* Acl::can, dispatched on the ACL the repository holds; a repository is
\* built for one request and its method asks the ACL once
can ==
    /\ acl.stage = "built"
    /\ \E resource \in Resources, action \in Actions,
          resources_with_scope \in SeqsUpTo(Contexts, MaxCtx) :
          LET a == acl.acl
              result ==
                  CASE a.variant = "System" ->
                           SystemAcl_can(resource, action, resources_with_scope)
                    [] a.variant = "Unauthorized" ->
                           UnauthorizedACL_can(resource, action, resources_with_scope)
                    [] OTHER ->
                           AclImpl_can(a.roles, a.user_id.val, resource, action,
                                       resources_with_scope)
          IN  acl' = [acl EXCEPT !.stage = "asked",
                                 !.call = [made |-> TRUE, resource |-> resource,
                                           action |-> action,
                                           resources_with_scope |->
                                               resources_with_scope,
                                           result |-> result]]
    /\ UNCHANGED <<users, identities, req, pv, mg, user_roles, cached_roles, last_get, webvars>>


(***************************************************************************)
(* Roles cache: CachedRoles in front of the role store.  user_roles is the *)
(* role store, cached_roles the cache, last_get the last call made and,    *)
(* per user, the entry an invalidation dropped that no get has followed.   *)
(***************************************************************************)
\* the roles a user can be granted
GrantableRoles == DOMAIN acls

\* cached_roles.get(user_id): the entry on a hit; on a miss the roles of the
\* role store, which become the entry
CachedRoles_get(user_id) ==
    LET hit == cached_roles[user_id].some
        roles == IF hit THEN cached_roles[user_id].val ELSE user_roles[user_id]
    IN  /\ cached_roles' = [cached_roles EXCEPT ![user_id] = Some(roles)]
        /\ last_get' = [op |-> "get", user |-> user_id, roles |-> roles, hit |-> hit,
                        after_invalidate |-> last_get.dropped[user_id].pending,
                        was |-> last_get.dropped[user_id].entry,
                        dropped |-> [last_get.dropped EXCEPT
                                        ![user_id] = [pending |-> FALSE, entry |-> None]]]
        /\ UNCHANGED <<users, identities, req, pv, mg, acl, user_roles, webvars>>

CachedRoles_invalidate_all(user_id) ==
    /\ cached_roles' = [u \in UserIds |-> None]
    /\ last_get' = [op |-> "invalidate", user |-> user_id, roles |-> <<>>, hit |-> FALSE,
                    after_invalidate |-> FALSE, was |-> None,
                    dropped |-> [last_get.dropped EXCEPT
                                    ![user_id] = [pending |-> TRUE,
                                                  entry |-> cached_roles[user_id]]]]
    /\ UNCHANGED <<users, identities, req, pv, mg, acl, user_roles, webvars>>

\* RolesCache.invalidate(user_id): the entry of user_id is removed
CachedRoles_invalidate(user_id) ==
    /\ cached_roles' = [cached_roles EXCEPT ![user_id] = None]
    /\ last_get' = [op |-> "invalidate", user |-> user_id, roles |-> <<>>, hit |-> FALSE,
                    after_invalidate |-> FALSE, was |-> None,
                    dropped |-> [last_get.dropped EXCEPT
                                    ![user_id] = [pending |-> TRUE,
                                                  entry |-> cached_roles[user_id]]]]
    /\ UNCHANGED <<users, identities, req, pv, mg, acl, user_roles, webvars>>

\* a write of the role store has been made for user_id
Written(user_id, roles) ==
    /\ user_roles' = [user_roles EXCEPT ![user_id] = roles]
    /\ last_get' = [last_get EXCEPT !.op = "write", !.user = user_id, !.roles = roles,
                                    !.hit = FALSE, !.after_invalidate = FALSE,
                                    !.was = None]
    /\ UNCHANGED <<users, identities, req, pv, mg, acl, cached_roles, webvars>>

\* UserRolesRepo::create: a role is granted
UserRolesRepo_create(user_id) ==
    \E name \in GrantableRoles :
        /\ \A i \in 1..Len(user_roles[user_id]) : user_roles[user_id][i] # name
        /\ Written(user_id, Append(user_roles[user_id], name))

\* UserRolesRepo::delete_user_role: a role is revoked
UserRolesRepo_delete_user_role(user_id) ==
    \E name \in GrantableRoles :
        /\ \E i \in 1..Len(user_roles[user_id]) : user_roles[user_id][i] = name
        /\ Written(user_id, SelectSeq(user_roles[user_id], LAMBDA role : role # name))

\* UserRolesRepo::delete_by_user_id: all roles of the user are deleted
UserRolesRepo_delete_by_user_id(user_id) ==
    /\ user_roles[user_id] # <<>>
    /\ Written(user_id, <<>>)


(***************************************************************************)
(* Route parser: controller/routes.rs.  A regex of the route table is      *)
(* ^literal$, ^literal(\d+)$ or ^literal(.+)$: its literal and the kind    *)
(* of its capture group.                                                   *)
(***************************************************************************)
\* i32::MAX
I32_MAX == 2147483647

AsciiDigits == <<"0", "1", "2", "3", "4", "5", "6", "7", "8", "9">>

IsAsciiDigit(c) == \E i \in 1..10 : AsciiDigits[i] = c

DigitValue(c) == (CHOOSE i \in 1..10 : AsciiDigits[i] = c) - 1

\* a decimal digit outside ASCII (ARABIC-INDIC DIGIT THREE), which \d matches
\* and str::parse does not accept
ArabicIndicThree == "U+0663"

\* the class \d of the regex crate
IsDigitClass(c) == IsAsciiDigit(c) \/ c = ArabicIndicThree

RECURSIVE parse_digits(_, _)

\* the digit loop of i32::from_str: checked_mul(10) then checked_add(digit)
parse_digits(ds, acc) ==
    IF ds = <<>> THEN Some(acc)
    ELSE IF ~IsAsciiDigit(Head(ds)) THEN None
    ELSE LET d == DigitValue(Head(ds))
         IN  IF acc > (I32_MAX - d) \div 10 THEN None
             ELSE parse_digits(Tail(ds), acc * 10 + d)

RECURSIVE parse_digits_saturating(_, _)

parse_digits_saturating(ds, acc) ==
    IF ds = <<>> THEN Some(acc)
    ELSE IF ~IsAsciiDigit(Head(ds)) THEN None
    ELSE LET d == DigitValue(Head(ds))
         IN  IF acc > (I32_MAX - d) \div 10 THEN Some(I32_MAX)
             ELSE parse_digits_saturating(Tail(ds), acc * 10 + d)

parse_i32_saturating(string) ==
    IF string = <<>> THEN None ELSE parse_digits_saturating(string, 0)

\* string.parse::<i32>().ok() for a string without sign
parse_i32(string) ==
    IF string = <<>> THEN None ELSE parse_digits(string, 0)

\* Route; id is the parameter of Route::User and 0 otherwise
Route(name) == [name |-> name, id |-> 0]

Route_User(user_id) == [name |-> "User", id |-> user_id]

\* Regex::new(regex_pattern)
Regex_new(literal, capture) == [literal |-> literal, capture |-> capture]

\* regex.captures(string): does the regex match, and its capture groups
Regex_captures(regex, string) ==
    LET n == Len(regex.literal)
        rest == SubSeq(string, n + 1, Len(string))
    IN  IF regex.capture = "none"
        THEN IF string = regex.literal THEN Some(<<>>) ELSE None
        ELSE IF /\ Len(string) > n
                /\ SubSeq(string, 1, n) = regex.literal
                /\ regex.capture = "digits"
                   => \A i \in 1..Len(rest) : IsDigitClass(rest[i])
             THEN Some(<<rest>>)
             ELSE None

\* RouteParser::get_matches: the capture groups after the whole match
RouteParser_get_matches(regex, string) == Regex_captures(regex, string)

\* the converters: the closure of add_route, the Users/:id closure, and a
\* closure that accepts nothing
Converter_route(route) == [kind |-> "route", route |-> route]

Converter_user_id == [kind |-> "user_id", route |-> Route("User")]

Converter_none == [kind |-> "none", route |-> Route("User")]

\* regex_and_converter.1(params)
Converter_call(converter, params) ==
    CASE converter.kind = "route" -> Some(converter.route)
      [] converter.kind = "user_id" ->
            IF Len(params) = 0 THEN None
            ELSE LET user_id == parse_i32(params[1])
                 IN  IF user_id.some THEN Some(Route_User(user_id.val)) ELSE None
      [] OTHER -> None

\* RouteParser::new
RouteParser_new == <<>>

\* the pair add_route_with_params pushes
RouteParser_rule(regex, converter) == [regex |-> regex, converter |-> converter]

\* RouteParser::add_route_with_params
RouteParser_add_route_with_params(self, regex, converter) ==
    Append(self, RouteParser_rule(regex, converter))

RouteParser_add_route_rule(regex, route) ==
    RouteParser_rule(regex, Converter_route(route))

\* RouteParser::add_route
RouteParser_add_route(self, regex, route) ==
    RouteParser_add_route_with_params(self, regex, Converter_route(route))

RECURSIVE fold_stops_at_match(_, _, _)

\* a fold in which the first rule whose regex matches decides
fold_stops_at_match(rules, acc, route) ==
    IF rules = <<>> THEN acc
    ELSE LET params == RouteParser_get_matches(Head(rules).regex, route)
         IN  IF params.some THEN Converter_call(Head(rules).converter, params.val)
             ELSE fold_stops_at_match(Tail(rules), acc, route)

RECURSIVE fold_last_wins(_, _, _)

\* a fold without the early return on acc.is_some()
fold_last_wins(rules, acc, route) ==
    IF rules = <<>> THEN acc
    ELSE LET params == RouteParser_get_matches(Head(rules).regex, route)
             next == IF params.some
                     THEN Converter_call(Head(rules).converter, params.val)
                     ELSE None
         IN  fold_last_wins(Tail(rules), IF next.some THEN next ELSE acc, route)

RECURSIVE fold(_, _, _)

\* the fold of RouteParser::test over regex_and_converters
fold(rules, acc, route) ==
    IF rules = <<>> THEN acc
    ELSE LET params == RouteParser_get_matches(Head(rules).regex, route)
             next == IF acc.some THEN acc
                     ELSE IF params.some
                     THEN Converter_call(Head(rules).converter, params.val)
                     ELSE None
         IN  fold(Tail(rules), next, route)

RouteParser_test_stops_at_match(self, route) == fold_stops_at_match(self, None, route)

RouteParser_test_last_wins(self, route) == fold_last_wins(self, None, route)

\* RouteParser::test
RouteParser_test(self, route) == fold(self, None, route)

create_route_parser_with_catch_all ==
    <<RouteParser_add_route_rule(Regex_new(<<"/", "u", "s", "e", "r", "s">>, "none"), Route("Users")),
      RouteParser_rule(Regex_new(<<"/", "u", "s", "e", "r", "s", "/">>, "digits"), Converter_user_id),
      RouteParser_add_route_rule(Regex_new(<<"/", "u", "s", "e", "r", "s", "/">>, "any"), Route("Users"))>>

\* create_route_parser: the route table, in registration order
create_route_parser ==
    <<
       RouteParser_add_route_rule(Regex_new(<<"/", "h", "e", "a", "l", "t", "h", "c", "h", "e", "c", "k">>, "none"),
                                  Route("Healthcheck")),
       RouteParser_add_route_rule(Regex_new(<<"/", "u", "s", "e", "r", "s">>, "none"),
                                  Route("Users")),
       RouteParser_add_route_rule(Regex_new(<<"/", "u", "s", "e", "r", "s", "/", "c", "u", "r", "r", "e", "n", "t">>, "none"),
                                  Route("Current")),
       RouteParser_add_route_rule(Regex_new(<<"/", "j", "w", "t", "/", "e", "m", "a", "i", "l">>, "none"),
                                  Route("JWTEmail")),
       RouteParser_add_route_rule(Regex_new(<<"/", "j", "w", "t", "/", "g", "o", "o", "g", "l", "e">>, "none"),
                                  Route("JWTGoogle")),
       RouteParser_add_route_rule(Regex_new(<<"/", "j", "w", "t", "/", "f", "a", "c", "e", "b", "o", "o", "k">>, "none"),
                                  Route("JWTFacebook")),
       RouteParser_rule(Regex_new(<<"/", "u", "s", "e", "r", "s", "/">>, "digits"),
                        Converter_user_id)
    >>


(***************************************************************************)
(* Route parser: registration and resolution                               *)
(***************************************************************************)
\* the regexes rules are registered with, one rule at a time
Regex_users_id == Regex_new(<<"/", "u", "s", "e", "r", "s", "/">>, "digits")

Regex_users_any == Regex_new(<<"/", "u", "s", "e", "r", "s", "/">>, "any")

Regex_users_current == Regex_new(<<"/", "u", "s", "e", "r", "s", "/", "c", "u", "r", "r", "e", "n", "t">>, "none")

\* RouteParser::add_route on the parser under construction
add_route ==
    /\ router.stage = "ready"
    /\ Len(router.rules) < MaxRules
    /\ \E regex \in {Regex_users_id, Regex_users_any, Regex_users_current},
          route \in {Route("Users"), Route("Current")} :
          router' = [router EXCEPT !.rules = RouteParser_add_route(@, regex, route)]
    /\ UNCHANGED <<users, identities, req, pv, authvars, listing, factory>>

\* RouteParser::add_route_with_params on the parser under construction
add_route_with_params ==
    /\ router.stage = "ready"
    /\ Len(router.rules) < MaxRules
    /\ \E regex \in {Regex_users_id, Regex_users_any},
          converter \in {Converter_user_id, Converter_none} :
          router' = [router EXCEPT
                        !.rules = RouteParser_add_route_with_params(@, regex, converter)]
    /\ UNCHANGED <<users, identities, req, pv, authvars, listing, factory>>

\* create_route_parser(): the parser of the service
build_route_parser ==
    /\ router.stage = "ready"
    /\ router.rules = RouteParser_new
    /\ router' = [router EXCEPT !.stage = "table", !.rules = create_route_parser,
                                !.tested = FALSE, !.result = None, !.first = None]
    /\ UNCHANGED <<users, identities, req, pv, authvars, listing, factory>>

\* RouteParser::test on the request's path; first keeps the first route the
\* path resolved to
test ==
    /\ router.stage \in {"ready", "table"}
    /\ LET result == RouteParser_test(router.rules, router.path)
       IN  router' = [router EXCEPT !.tested = TRUE, !.result = result,
                                   !.at = Len(router.rules),
                                   !.first = IF @.some THEN @ ELSE result]
    /\ UNCHANGED <<users, identities, req, pv, authvars, listing, factory>>


(***************************************************************************)
(* Request pipelines.  req[r] is the state of pipeline r: the call it is   *)
(* suspended on (pc), its inputs, the values its closures captured, its    *)
(* result, and the calls it has completed (log).                           *)
(***************************************************************************)
Reqs == 1..NumReq

Idle ==
    [pc |-> "idle", kind |-> "none", email |-> NULL, password |-> <<>>,
     profile |-> None, exists |-> FALSE, email_exist |-> FALSE, user_id |-> 0,
     user |-> None, identity |-> None, verified |-> FALSE, canonical |-> NULL,
     result |-> [kind |-> "pending"], log |-> <<>>]

\* the error a failed call leaves as the pipeline's result
StepError(pc) ==
    IF pc = "get_profile"
    THEN <<"HttpClient", "Failed to receive user info from facebook.">>
    ELSE <<"Repo", pc>>

Set(r, rec) == req' = [req EXCEPT ![r] = rec]

Logged(r, call) == Append(req[r].log, call)

\* the pipeline's future resolves: email is handed to the token tail
Minted(rec, email, encode_ok) ==
    [rec EXCEPT !.pc = "done", !.canonical = email,
                !.result = create_jwt(email, Secret, encode_ok),
                !.log = Append(rec.log, "encode")]

(***************************************************************************)
(* Entry points.  Pipelines are numbered in the order the requests arrive. *)
(***************************************************************************)
Arrives(r) == req[r].pc = "idle" /\ \A q \in 1..(r - 1) : req[q].pc # "idle"

\* JWTService::create_token_email
create_token_email(r) ==
    /\ Arrives(r)
    /\ \E email \in Emails, password \in ClearPasswords :
          Set(r, [req[r] EXCEPT !.pc = "email_provider_exists", !.kind = "email",
                                !.email = email, !.password = password])
    /\ UNCHANGED <<users, identities, pv, authvars, webvars>>

\* JWTService::create_token_google
create_token_google(r) ==
    /\ Arrives(r)
    /\ \E email \in Emails :
          Set(r, [req[r] EXCEPT !.pc = "get_profile", !.kind = "google", !.email = email])
    /\ UNCHANGED <<users, identities, pv, authvars, webvars>>

\* JWTService::create_token_facebook
create_token_facebook(r) ==
    /\ Arrives(r)
    /\ \E email \in Emails :
          Set(r, [req[r] EXCEPT !.pc = "get_profile", !.kind = "facebook", !.email = email])
    /\ UNCHANGED <<users, identities, pv, authvars, webvars>>

\* UsersService::create
create(r) ==
    /\ Arrives(r)
    /\ \E email \in Emails :
          Set(r, [req[r] EXCEPT !.pc = "signup_email_exists", !.kind = "signup",
                                !.email = email])
    /\ UNCHANGED <<users, identities, pv, authvars, webvars>>

(***************************************************************************)
(* Provider sign-in: ProfileService::create_token and its steps            *)
(***************************************************************************)
get_profile_then_create(r) ==
    /\ req[r].pc = "get_profile"
    /\ Set(r, [req[r] EXCEPT !.pc = "create_profile",
                             !.profile = Some(ProfileOf(req[r].kind, req[r].email)),
                             !.log = Logged(r, "http.request")])
    /\ UNCHANGED <<users, identities, pv, authvars, webvars>>

\* ProfileService::get_profile: the provider answers with the profile
get_profile(r) ==
    /\ req[r].pc = "get_profile"
    /\ Set(r, [req[r] EXCEPT !.pc = "email_exists",
                             !.profile = Some(ProfileOf(req[r].kind, req[r].email)),
                             !.log = Logged(r, "http.request")])
    /\ UNCHANGED <<users, identities, pv, authvars, webvars>>

create_token_branch_always_create(exists) == "create_or_update_profile"

\* create_token: the match on the result of email_exists
create_token_branch(exists) ==
    IF exists THEN "create_jwt" ELSE "create_or_update_profile"

\* ProfileService::email_exists, then create_token's match on its result
email_exists(r) ==
    /\ req[r].pc = "email_exists"
    /\ LET profile == req[r].profile.val
           exists == IdentitiesRepo_email_provider_exists(profile.email, ProviderOf(req[r].kind))
           checked == [req[r] EXCEPT !.exists = exists,
                                     !.log = Logged(r, "identities.email_provider_exists")]
       IN  IF create_token_branch(exists) = "create_jwt"
           THEN \E encode_ok \in BOOLEAN : Set(r, Minted(checked, profile.email, encode_ok))
           ELSE Set(r, [checked EXCEPT !.pc = "create_or_update_profile"])
    /\ UNCHANGED <<users, identities, pv, authvars, webvars>>

\* ProfileService::create_or_update_profile
create_or_update_profile(r) ==
    /\ req[r].pc = "create_or_update_profile"
    /\ LET email_exist == UsersRepo_email_exists(req[r].profile.val.email)
       IN  Set(r, [req[r] EXCEPT !.pc = IF email_exist THEN "update_profile" ELSE "create_profile",
                                 !.email_exist = email_exist,
                                 !.log = Logged(r, "users.email_exists")])
    /\ UNCHANGED <<users, identities, pv, authvars, webvars>>

\* ProfileService::create_profile, first half: users_repo.create(new_user)
create_profile(r) ==
    /\ req[r].pc = "create_profile"
    /\ LET new_user == NewUser_from(req[r].profile.val)
       IN  /\ users' = UsersRepo_create(new_user)
           /\ Set(r, [req[r] EXCEPT !.pc = "create_profile_identity",
                                    !.user_id = Len(users) + 1,
                                    !.user = Some(new_user),
                                    !.log = Logged(r, "users.create")])
    /\ UNCHANGED <<identities, pv, authvars, webvars>>

\* the provider create_profile writes into the new Identity
create_profile_provider(kind) == "Facebook"

\* ProfileService::create_profile, second half: ident_repo.create(...)
create_profile_identity(r) ==
    /\ req[r].pc = "create_profile_identity"
    /\ LET profile == req[r].profile.val
           provider == create_profile_provider(req[r].kind)
           created == IdentitiesRepo_create(profile.email, None, provider, req[r].user_id)
           written == [req[r] EXCEPT !.log = Logged(r, "identities.create")]
       IN  /\ identities' = created
           /\ \E encode_ok \in BOOLEAN :
                 Set(r, Minted(written, created[Len(created)].email, encode_ok))
    /\ UNCHANGED <<users, pv, authvars, webvars>>

\* ProfileService::update_profile, first half: users_repo.find_by_email
update_profile(r) ==
    /\ req[r].pc = "update_profile"
    /\ LET id == UsersRepo_find_by_email(req[r].profile.val.email)
       IN  Set(r, [req[r] EXCEPT !.pc = "update_profile_update",
                                 !.user_id = id,
                                 !.user = Some(users[id]),
                                 !.log = Logged(r, "users.find_by_email")])
    /\ UNCHANGED <<users, identities, pv, authvars, webvars>>

\* ProfileService::update_profile, second half: users_repo.update(user.id, ...)
update_profile_update(r) ==
    /\ req[r].pc = "update_profile_update"
    /\ LET update_user == merge_into_user(req[r].kind, req[r].profile.val, req[r].user.val)
           updated == UsersRepo_update(req[r].user_id, update_user)
           written == [req[r] EXCEPT !.log = Logged(r, "users.update")]
       IN  /\ users' = updated
           /\ \E encode_ok \in BOOLEAN :
                 Set(r, Minted(written, updated[req[r].user_id].email, encode_ok))
    /\ UNCHANGED <<identities, pv, authvars, webvars>>

(***************************************************************************)
(* Email/password sign-in: JWTService::create_token_email                  *)
(***************************************************************************)
EmailNotExistsError_distinct == <<"Validate", "email", "Email not found">>

\* the error of the "email does not exist" arm
EmailNotExistsError == <<"Validate", "email", "Email or password are incorrect">>

\* the error of the "password not verified" arm
PasswordNotVerifiedError == <<"Validate", "email", "Email or password are incorrect">>

\* ident_repo.email_provider_exists(email, Provider::Email) and the match on it
email_provider_exists(r) ==
    /\ req[r].pc = "email_provider_exists"
    /\ LET exists == IdentitiesRepo_email_provider_exists(req[r].email, "Email")
       IN  Set(r, [req[r] EXCEPT !.pc = IF exists THEN "find_by_email_provider" ELSE "done",
                                 !.exists = exists,
                                 !.result = IF exists THEN @ ELSE Err(EmailNotExistsError),
                                 !.log = Logged(r, "identities.email_provider_exists")])
    /\ UNCHANGED <<users, identities, pv, authvars, webvars>>

\* ident_repo.find_by_email_provider(...) and the closures chained on it:
\* identity.user_password.unwrap(), password_verify, the match on verified
find_by_email_provider(r) ==
    /\ req[r].pc = "find_by_email_provider"
    /\ LET identity == IdentitiesRepo_find_by_email_provider(req[r].email, "Email")
           found == [req[r] EXCEPT !.identity = Some(identity),
                                   !.log = Logged(r, "identities.find_by_email_provider")]
       IN  IF ~identity.password.some
           THEN Set(r, [found EXCEPT !.pc = "done", !.result = Panic])
           ELSE LET verified == password_verify(identity.password.val, req[r].password)
                IN  IF ~verified.ok
                    THEN Set(r, [found EXCEPT !.pc = "done", !.result = Err(verified.err)])
                    ELSE IF ~verified.value
                    THEN Set(r, [found EXCEPT !.pc = "done",
                                              !.result = Err(PasswordNotVerifiedError)])
                    ELSE \E encode_ok \in BOOLEAN :
                            Set(r, Minted([found EXCEPT !.verified = TRUE],
                                          req[r].email, encode_ok))
    /\ UNCHANGED <<users, identities, pv, authvars, webvars>>

(***************************************************************************)
(* Email signup: UsersService::create                                      *)
(***************************************************************************)
\* "Unique e-mail validation": users_repo.email_exists(payload.email)
create_email_exists(r) ==
    /\ req[r].pc = "signup_email_exists"
    /\ LET email_exist == UsersRepo_email_exists(req[r].email)
       IN  Set(r, [req[r] EXCEPT !.pc = IF email_exist THEN "done" ELSE "signup_create",
                                 !.email_exist = email_exist,
                                 !.result = IF email_exist
                                            THEN Err(<<"BadRequest", "E-mail already registered">>)
                                            ELSE @,
                                 !.log = Logged(r, "users.email_exists")])
    /\ UNCHANGED <<users, identities, pv, authvars, webvars>>

\* "User creation": users_repo.create(payload)
create_user(r) ==
    /\ req[r].pc = "signup_create"
    /\ LET new_user == SignupPayload(req[r].email)
       IN  /\ users' = UsersRepo_create(new_user)
           /\ Set(r, [req[r] EXCEPT !.pc = "done",
                                    !.user_id = Len(users) + 1,
                                    !.user = Some(new_user),
                                    !.result = Ok([user |-> new_user]),
                                    !.log = Logged(r, "users.create")])
    /\ UNCHANGED <<identities, pv, authvars, webvars>>

(***************************************************************************)
(* A call that fails (the map_err arms): the pipeline ends with the error  *)
(***************************************************************************)
step_fails_and_goes_on(r) ==
    /\ req[r].pc \notin {"idle", "done"}
    /\ Set(r, [req[r] EXCEPT !.result = Err(StepError(req[r].pc))])
    /\ UNCHANGED <<users, identities, pv, authvars, webvars>>

step_fails_rolls_back(r) ==
    /\ req[r].pc \notin {"idle", "done"}
    /\ Set(r, [req[r] EXCEPT !.pc = "done", !.result = Err(StepError(req[r].pc))])
    /\ users' = IF req[r].pc = "create_profile_identity"
                THEN [i \in 1..(Len(users) - 1) |->
                         IF i < req[r].user_id THEN users[i] ELSE users[i + 1]]
                ELSE users
    /\ UNCHANGED <<identities, pv, authvars, webvars>>

step_fails(r) ==
    /\ req[r].pc \notin {"idle", "done"}
    /\ Set(r, [req[r] EXCEPT !.pc = "done", !.result = Err(StepError(req[r].pc))])
    /\ UNCHANGED <<users, identities, pv, authvars, webvars>>

(***************************************************************************)
(* Specification of the service: all four pipelines                        *)
(***************************************************************************)
\* no merge under test, no ACL built, no roles stored or cached
MgOff == [stage |-> "off"]

AclOff == [stage |-> "off"]

NoGet == [op |-> "none"]

RouterOff == [stage |-> "off"]

ListingOff == [stage |-> "off"]

FactoryOff == [stage |-> "off"]

WebOff ==
    /\ router = RouterOff
    /\ listing = ListingOff
    /\ factory = FactoryOff

AuthOff ==
    /\ mg = MgOff
    /\ acl = AclOff
    /\ user_roles = <<>>
    /\ cached_roles = <<>>
    /\ last_get = NoGet

PvOff == [stage |-> "off", p |-> <<>>, s |-> <<>>, q |-> <<>>, stored |-> <<>>,
          same |-> [ok |-> FALSE, err |-> <<>>], other |-> [ok |-> FALSE, err |-> <<>>]]

\* the database when the service starts: empty, or holding one account
\* registered with email and the password "p"
Init ==
    /\ req = [r \in Reqs |-> Idle]
    /\ WebOff
    /\ pv = PvOff
    /\ AuthOff
    /\ \/ users = <<>> /\ identities = <<>>
       \/ /\ users = <<SeedUser>>
          /\ identities = <<SeedIdentity(Some(password_create(<<"p">>, <<"1", "2">>)))>>

Next ==
    \E r \in Reqs :
        \/ create_token_email(r)
        \/ create_token_google(r)
        \/ create_token_facebook(r)
        \/ create(r)
        \/ get_profile(r)
        \/ email_exists(r)
        \/ create_or_update_profile(r)
        \/ create_profile(r)
        \/ create_profile_identity(r)
        \/ update_profile(r)
        \/ update_profile_update(r)
        \/ email_provider_exists(r)
        \/ find_by_email_provider(r)
        \/ create_email_exists(r)
        \/ create_user(r)
        \/ step_fails(r)

Spec == Init /\ [][Next]_vars

(***************************************************************************)
(* Specification of email/password sign-in against every shape of stored   *)
(* password                                                                *)
(***************************************************************************)
EmailInit ==
    /\ req = [r \in Reqs |-> Idle]
    /\ WebOff
    /\ pv = PvOff
    /\ AuthOff
    /\ AuthOff
    /\ \/ users = <<>> /\ identities = <<>>
       \/ \E stored \in StoredPasswords :
             users = <<SeedUser>> /\ identities = <<SeedIdentity(stored)>>

EmailNext ==
    \E r \in Reqs :
        \/ create_token_email(r)
        \/ email_provider_exists(r)
        \/ find_by_email_provider(r)
        \/ step_fails(r)

EmailSpec == EmailInit /\ [][EmailNext]_vars

(***************************************************************************)
(* Specification of the password round trip: password_create followed by   *)
(* password_verify with the same and with another clear password           *)
(***************************************************************************)
PwChars == {"p", ".", "1"}

SaltChars == {"1", "2"}

PwInit ==
    /\ req = [r \in Reqs |-> Idle]
    /\ WebOff
    /\ AuthOff
    /\ users = <<>>
    /\ identities = <<>>
    /\ \E p \in SeqsUpTo(PwChars, MaxPwLen), q \in SeqsUpTo(PwChars, MaxPwLen),
          s \in SeqsUpTo(SaltChars, MaxSaltLen) :
          pv = [PvOff EXCEPT !.stage = "input", !.p = p, !.q = q, !.s = s]

PwCreate ==
    /\ pv.stage = "input"
    /\ pv' = [pv EXCEPT !.stage = "stored", !.stored = password_create(pv.p, pv.s)]
    /\ UNCHANGED <<users, identities, req, authvars, webvars>>

PwVerify ==
    /\ pv.stage = "stored"
    /\ pv' = [pv EXCEPT !.stage = "verified",
                        !.same = password_verify(pv.stored, pv.p),
                        !.other = password_verify(pv.stored, pv.q)]
    /\ UNCHANGED <<users, identities, req, authvars, webvars>>

PwNext == PwCreate \/ PwVerify

PwSpec == PwInit /\ [][PwNext]_vars


(***************************************************************************)
(* Specification of the merge of a provider profile into an existing User: *)
(* update_profile on every shape of User, for both providers               *)
(***************************************************************************)
\* the Users a provider profile can be merged into
MergeUsers ==
    [email : {"a@x.com"}, phone : {NULL, "555"}, first_name : {NULL, "Ufirst"},
     last_name : {NULL, "Ulast"}, middle_name : {NULL, "Umid"},
     gender : {"Undefined", "Male", "Female"}, birthdate : {NULL, "1990"}]

MergeInit ==
    /\ req = [r \in Reqs |-> Idle]
    /\ WebOff
    /\ pv = PvOff
    /\ identities = <<>>
    /\ acl = AclOff
    /\ user_roles = <<>>
    /\ cached_roles = <<>>
    /\ last_get = NoGet
    /\ \E user \in MergeUsers, kind \in {"google", "facebook"} :
          /\ users = <<user>>
          /\ mg = [stage |-> "found", kind |-> kind, user_id |-> 1, user |-> user,
                   profile |-> ProfileOf(kind, user.email)]

\* update_profile: profile.merge_into_user(user.clone())
MergeIntoUser ==
    /\ mg.stage = "found"
    /\ mg' = [stage |-> "merged", kind |-> mg.kind, user_id |-> mg.user_id,
              user |-> mg.user, profile |-> mg.profile,
              update_user |-> merge_into_user(mg.kind, mg.profile, mg.user)]
    /\ UNCHANGED <<users, identities, req, pv, acl, user_roles, cached_roles, last_get, webvars>>

\* update_profile: users_repo.update(user.id, update_user)
MergeUpdate ==
    /\ mg.stage = "merged"
    /\ users' = UsersRepo_update(mg.user_id, mg.update_user)
    /\ mg' = [mg EXCEPT !.stage = "updated"]
    /\ UNCHANGED <<identities, req, pv, acl, user_roles, cached_roles, last_get, webvars>>

MergeNext == MergeIntoUser \/ MergeUpdate

MergeSpec == MergeInit /\ [][MergeNext]_vars

(***************************************************************************)
(* Specification of the access-control layer: a repository is built with   *)
(* its ACL, then asked can(resource, action, contexts)                     *)
(***************************************************************************)
\* the Vec<Role> the role store can hold for one user
RoleVecs == {v \in SeqsUpTo(Roles, MaxRoles) : \A i, j \in 1..Len(v) : v[i] = v[j] => i = j}

AclInit ==
    /\ req = [r \in Reqs |-> Idle]
    /\ WebOff
    /\ pv = PvOff
    /\ users = <<>>
    /\ identities = <<>>
    /\ mg = MgOff
    /\ acl = AclOff
    /\ cached_roles = <<>>
    /\ last_get = NoGet
    /\ user_roles \in [UserIds -> RoleVecs]

AclNext ==
    \/ create_users_repo
    \/ create_user_roles_repo
    \/ create_users_repo_with_sys_acl
    \/ create_user_roles_repo_with_sys_acl
    \/ can

AclSpec == AclInit /\ [][AclNext]_vars

(***************************************************************************)
(* Specification of the roles cache under reads, invalidations and writes  *)
(* of the role store                                                       *)
(***************************************************************************)
CacheInit ==
    /\ req = [r \in Reqs |-> Idle]
    /\ WebOff
    /\ pv = PvOff
    /\ users = <<>>
    /\ identities = <<>>
    /\ mg = MgOff
    /\ acl = AclOff
    /\ user_roles \in [UserIds -> {<<>>, <<"User">>}]
    /\ cached_roles = [u \in UserIds |-> None]
    /\ last_get = [op |-> "none", user |-> 5, roles |-> <<>>, hit |-> FALSE,
                   after_invalidate |-> FALSE, was |-> None,
                   dropped |-> [u \in UserIds |-> [pending |-> FALSE, entry |-> None]]]

CacheNext ==
    \E user_id \in UserIds :
        \/ CachedRoles_get(user_id)
        \/ CachedRoles_invalidate(user_id)
        \/ UserRolesRepo_create(user_id)
        \/ UserRolesRepo_delete_user_role(user_id)
        \/ UserRolesRepo_delete_by_user_id(user_id)

CacheSpec == CacheInit /\ [][CacheNext]_vars

(***************************************************************************)
(* Specification of a route parser built rule by rule and asked to resolve *)
(* one path any number of times                                            *)
(***************************************************************************)
RouterPaths ==
    {<<"/", "u", "s", "e", "r", "s", "/", "4", "2">>,
     <<"/", "u", "s", "e", "r", "s", "/", "a", "b", "c">>,
     <<"/", "u", "s", "e", "r", "s", "/", "c", "u", "r", "r", "e", "n", "t">>,
     <<"/", "u", "s", "e", "r", "s", "/", "2", "1", "4", "7", "4", "8", "3", "6", "4", "8">>,
     <<"/", "u", "s", "e", "r", "s">>,
     <<"/", "u", "s", "e", "r", "s", "/">>,
     Append(<<"/", "u", "s", "e", "r", "s", "/">>, ArabicIndicThree)}

RouterReady(path) ==
    [stage |-> "ready", rules |-> RouteParser_new, path |-> path, tested |-> FALSE,
     result |-> None, at |-> 0, first |-> None]

RouterInit ==
    /\ req = [r \in Reqs |-> Idle]
    /\ pv = PvOff
    /\ users = <<>>
    /\ identities = <<>>
    /\ AuthOff
    /\ listing = ListingOff
    /\ factory = FactoryOff
    /\ \E path \in RouterPaths : router = RouterReady(path)

RouterNext == add_route \/ add_route_with_params \/ test

RouterSpec == RouterInit /\ [][RouterNext]_vars

(***************************************************************************)
(* Specification of the service's route table: create_route_parser, then   *)
(* the resolution of a path                                                *)
(***************************************************************************)
\* the literals of the route table of the interface description
TableLiterals ==
    {<<"/", "h", "e", "a", "l", "t", "h", "c", "h", "e", "c", "k">>,
     <<"/", "u", "s", "e", "r", "s">>,
     <<"/", "u", "s", "e", "r", "s", "/">>,
     <<"/", "u", "s", "e", "r", "s", "/", "c", "u", "r", "r", "e", "n", "t">>,
     <<"/", "j", "w", "t", "/", "e", "m", "a", "i", "l">>,
     <<"/", "j", "w", "t", "/", "g", "o", "o", "g", "l", "e">>,
     <<"/", "j", "w", "t", "/", "f", "a", "c", "e", "b", "o", "o", "k">>,
     <<"/", "u", "s", "e", "r", "_", "r", "o", "l", "e", "s">>,
     <<"/", "u", "s", "e", "r", "_", "r", "o", "l", "e", "s", "/">>,
     <<"/", "r", "o", "l", "e", "s", "/", "d", "e", "f", "a", "u", "l", "t", "/">>}

PathTails ==
    SeqsUpTo({"0", "4", "2"}, MaxIdDigits)
    \cup {<<"a", "b", "c">>,
          <<"c", "u", "r", "r", "e", "n", "t">>,
          <<"2", "1", "4", "7", "4", "8", "3", "6", "4", "7">>,
          <<"2", "1", "4", "7", "4", "8", "3", "6", "4", "8">>,
          <<"9", "9", "9", "9", "9", "9", "9", "9", "9", "9", "9">>,
          <<"4", "a">>,
          <<"/">>,
          <<ArabicIndicThree>>}

Paths == {literal \o tail : literal \in TableLiterals, tail \in PathTails}

RoutesInit ==
    /\ req = [r \in Reqs |-> Idle]
    /\ pv = PvOff
    /\ users = <<>>
    /\ identities = <<>>
    /\ AuthOff
    /\ listing = ListingOff
    /\ factory = FactoryOff
    /\ \E path \in Paths : router = RouterReady(path)

RoutesNext == build_route_parser \/ test

RoutesSpec == RoutesInit /\ [][RoutesNext]_vars

(***************************************************************************)
(* Properties                                                              *)
(***************************************************************************)
IsProvider(r) == req[r].kind \in {"google", "facebook"}

Succeeded(r) == req[r].result.kind = "ok"

Has(r, call) == \E i \in 1..Len(req[r].log) : req[r].log[i] = call

WriteCalls == {"users.create", "users.update", "identities.create"}

\* the identities linking (email, provider) to the user user_id
Links(email, provider, user_id) ==
    {i \in 1..Len(identities) :
        /\ identities[i].email = email
        /\ identities[i].provider = provider
        /\ identities[i].user_id = user_id}

\* C1: a provider sign-in that found no Identity for (email, provider) but a
\* User for the email (the merge branch) and succeeded has created no User
\* and has left exactly one Identity for (email, provider) linked to the
\* User it merged into.
C1_MergeLinksIdentity ==
    \A r \in Reqs :
        (IsProvider(r) /\ Succeeded(r) /\ ~req[r].exists /\ req[r].email_exist)
        => /\ ~Has(r, "users.create")
           /\ Cardinality(Links(req[r].email, ProviderOf(req[r].kind), req[r].user_id)) = 1

\* C2: in every reachable state the User store holds at most one User per
\* email.
C2_OneUserPerEmail ==
    \A i, j \in 1..Len(users) : users[i].email = users[j].email => i = j

\* C3: in every reachable state the Identity store holds at most one
\* Identity per (email, provider) pair.
C3_OneIdentityPerEmailProvider ==
    \A i, j \in 1..Len(identities) :
        (identities[i].email = identities[j].email
         /\ identities[i].provider = identities[j].provider) => i = j

\* C4: a provider sign-in that found neither an Identity nor a User (the
\* new-user branch) and succeeded has created the User and an Identity whose
\* provider is the provider of the request and whose user id is the new
\* User's id.
C4_NewUserIdentityProvider ==
    \A r \in Reqs :
        (IsProvider(r) /\ Succeeded(r) /\ Has(r, "identities.create"))
        => /\ users[req[r].user_id] = NewUser_from(req[r].profile.val)
           /\ Links(req[r].email, ProviderOf(req[r].kind), req[r].user_id) # {}

\* C5: every step of a provider sign-in whose Identity lookup found the
\* (email, provider) Identity leaves the User and Identity stores unchanged,
\* and a token it returns carries profile.email.
C5_ReturningUserWritesNothing ==
    [][\A r \in Reqs :
          (req'[r] # req[r] /\ req'[r].kind \in {"google", "facebook"} /\ req'[r].exists)
          => /\ users' = users
             /\ identities' = identities
             /\ req'[r].result.kind = "ok"
                => req'[r].result.value.token.payload.user_email = req'[r].profile.val.email]_vars

C5_Witness ==
    \E r \in Reqs : IsProvider(r) /\ req[r].exists /\ Succeeded(r)

\* C6: in a provider sign-in every store write comes after the pipeline's
\* Identity-exists lookup and after its User-exists lookup.
C6_ChecksPrecedeWrites ==
    \A r \in Reqs :
        IsProvider(r) =>
            \A i \in 1..Len(req[r].log) :
                req[r].log[i] \in WriteCalls
                => /\ \E j \in 1..(i - 1) : req[r].log[j] = "identities.email_provider_exists"
                   /\ \E j \in 1..(i - 1) : req[r].log[j] = "users.email_exists"

C6_Witness ==
    \E r \in Reqs : IsProvider(r) /\ Has(r, "users.create") /\ Has(r, "identities.create")

\* the email sign-in r ended because no Email Identity exists for its email
NoIdentityRun(r) ==
    /\ req[r].kind = "email"
    /\ Has(r, "identities.email_provider_exists")
    /\ ~req[r].exists

\* the email sign-in r found the Identity and its password did not match
MismatchRun(r) ==
    /\ req[r].kind = "email"
    /\ req[r].identity.some
    /\ req[r].identity.val.password.some
    /\ password_verify(req[r].identity.val.password.val, req[r].password)
          = [ok |-> TRUE, value |-> FALSE]

\* C7: an email sign-in for an email without Identity and an email sign-in
\* whose password does not match the stored hash end in the same error, and
\* neither returns a token.
C7_SameErrorForAbsentAndMismatch ==
    \A r1, r2 \in Reqs :
        (NoIdentityRun(r1) /\ MismatchRun(r2))
        => /\ req[r1].result = req[r2].result
           /\ req[r1].result.kind = "err"

C7_Witness ==
    \E r1, r2 \in Reqs : NoIdentityRun(r1) /\ MismatchRun(r2)

\* C8: password_verify of password_create(p, s) is true with p and false
\* with every other password q.
C8_PasswordRoundTrip ==
    pv.stage = "verified"
    => /\ pv.same = [ok |-> TRUE, value |-> TRUE]
       /\ pv.q # pv.p => pv.other = [ok |-> TRUE, value |-> FALSE]

C8_Witness ==
    /\ pv.stage = "verified"
    /\ pv.q # pv.p
    /\ Len(pv.s) > 0
    /\ \E i \in 1..Len(pv.p) : pv.p[i] = "."

\* the stored password is absent or does not split into exactly two parts
Malformed(stored) == ~stored.some \/ Len(split(stored.val, ".")) # 2

\* C9: an email sign-in that finds an Identity whose stored password is
\* malformed or absent ends in an error result: no panic and no token.
C9_MalformedHashIsAnError ==
    \A r \in Reqs :
        (req[r].kind = "email" /\ req[r].identity.some
         /\ Malformed(req[r].identity.val.password))
        => req[r].result.kind = "err"

\* the canonical email of a sign-in: the submitted email on the password
\* path, profile.email on the provider paths
CanonicalEmail(r) ==
    IF req[r].kind = "email" THEN req[r].email ELSE req[r].profile.val.email

\* C10: every successful sign-in returns a token whose payload is exactly
\* { user_email: canonical email }, on every path.
C10_TokenCarriesCanonicalEmail ==
    \A r \in Reqs :
        (req[r].kind \in {"email", "google", "facebook"} /\ Succeeded(r))
        => /\ req[r].result.value.token.payload = [user_email |-> CanonicalEmail(r)]
           /\ req[r].result.value.token = jwt_encode([user_email |-> CanonicalEmail(r)], Secret)

C10_Witness ==
    \E r1, r2 \in Reqs :
        /\ req[r1].kind = "email" /\ Succeeded(r1)
        /\ IsProvider(r2) /\ Succeeded(r2) /\ Has(r2, "users.update")
        /\ req[r1].email = req[r2].email

(***************************************************************************)
(* Errors are terminal                                                     *)
(***************************************************************************)
Failed(r) == req[r].result.kind = "err"

NoDuplicates(log) == \A i, j \in 1..Len(log) : log[i] = log[j] => i = j

\* a step of the service in which pipeline r fails while fetching the profile
FetchFails(r) == req[r].pc = "get_profile" /\ req'[r].result.kind = "err"

\* C11: when a step of a sign-in pipeline fails, the pipeline ends with that
\* error: it is finished, it holds no token, nothing of it runs afterwards,
\* no call was made twice, and a failed profile fetch changes neither the
\* User nor the Identity store.
C11_ErrorsAreTerminal ==
    /\ [](\A r \in Reqs :
            /\ Failed(r) => req[r].pc = "done" /\ "value" \notin DOMAIN req[r].result
            /\ NoDuplicates(req[r].log))
    /\ [][\A r \in Reqs :
            /\ Failed(r) => req'[r] = req[r]
            /\ FetchFails(r) => /\ users' = users /\ identities' = identities
                                /\ req'[r].log = <<>>
                                /\ req'[r].result = Err(StepError("get_profile"))]_vars

C11_Witness ==
    \E r1, r2 \in Reqs :
        /\ req[r1].result = Err(StepError("get_profile"))
        /\ req[r2].result = Err(StepError("create_profile_identity"))
        /\ Has(r2, "users.create")

(***************************************************************************)
(* Email signup                                                            *)
(***************************************************************************)
UsersWith(email) == {i \in 1..Len(users) : users[i].email = email}

IdentitiesWith(email, provider) ==
    {i \in 1..Len(identities) :
        identities[i].email = email /\ identities[i].provider = provider}

\* C12: a registration that succeeds leaves exactly one User and exactly one
\* Identity with provider Email for its email; a registration that is
\* refused found the email registered and wrote nothing.
C12_SignupCreatesUserAndIdentity ==
    \A r \in Reqs :
        req[r].kind = "signup" /\ req[r].pc = "done"
        => /\ Succeeded(r)
              => /\ Cardinality(UsersWith(req[r].email)) = 1
                 /\ Cardinality(IdentitiesWith(req[r].email, "Email")) = 1
           /\ Failed(r) /\ req[r].email_exist
              => ~(\E i \in 1..Len(req[r].log) : req[r].log[i] \in WriteCalls)

(***************************************************************************)
(* Merge                                                                   *)
(***************************************************************************)
\* the value a merge must leave in a field: the User's when populated
Kept(mine, theirs, unpopulated) == IF mine = unpopulated THEN theirs ELSE mine

MergeKeepsPopulated(kind, user, profile, merged) ==
    /\ merged.first_name = Kept(user.first_name, profile.first_name, NULL)
    /\ merged.last_name = Kept(user.last_name, profile.last_name, NULL)
    /\ kind = "facebook" => merged.gender = Kept(user.gender, profile.gender, "Undefined")
    /\ merged.phone = user.phone
    /\ merged.middle_name = user.middle_name
    /\ merged.birthdate = user.birthdate

\* C13: merging a provider profile into an existing User never overwrites a
\* populated field: first_name and last_name (and gender on the Facebook
\* merge, Undefined being unpopulated) keep the User's value when it is
\* populated and take the profile's otherwise; phone, middle_name and
\* birthdate keep the User's values.  It holds of the merged update and of
\* the row the update leaves in the store.
C13_MergeKeepsPopulatedFields ==
    /\ mg.stage \in {"merged", "updated"}
       => MergeKeepsPopulated(mg.kind, mg.user, mg.profile, mg.update_user)
    /\ mg.stage = "updated"
       => MergeKeepsPopulated(mg.kind, mg.user, mg.profile, users[mg.user_id])

C13_Witness ==
    /\ mg.stage = "updated"
    /\ mg.kind = "facebook"
    /\ mg.user.first_name # NULL /\ mg.user.last_name = NULL
    /\ mg.user.gender = "Female" /\ mg.user.phone # NULL
    /\ users[mg.user_id].first_name = mg.user.first_name
    /\ users[mg.user_id].last_name = mg.profile.last_name

(***************************************************************************)
(* Access control                                                          *)
(***************************************************************************)
\* the repository holds an AclImpl / ApplicationAcl and has been asked
AskedApplication == acl.stage = "asked" /\ acl.acl.variant = "Application"

\* some role of the acting user has a permission on the resource, for the
\* action or for All, whose scope every supplied context satisfies
Permitted(roles, user_id, resource, action, contexts) ==
    \E i \in 1..Len(roles) :
        /\ roles[i] \in DOMAIN acls
        /\ \E k \in 1..Len(acls[roles[i]]) :
              LET p == acls[roles[i]][k]
              IN  /\ p.resource = resource
                  /\ p.action \in {action, "All"}
                  /\ \A c \in 1..Len(contexts) :
                        p.scope = "All" \/ (p.scope = "Owned" /\ contexts[c].id = user_id)

\* C14: can(user, resource, action, contexts) is true if and only if some
\* role of the user has a permission in the static table with that resource,
\* with the action or All, and with a scope that every supplied context
\* satisfies for the acting user; it is false for a user with no roles or
\* with only roles that are not in the table.
C14_CanIffPermitted ==
    AskedApplication
    => /\ acl.call.result =
              Permitted(acl.acl.roles, acl.acl.user_id.val, acl.call.resource,
                        acl.call.action, acl.call.resources_with_scope)
       /\ (\A i \in 1..Len(acl.acl.roles) : acl.acl.roles[i] \notin DOMAIN acls)
              => ~acl.call.result

C14_Witness ==
    /\ AskedApplication
    /\ acl.acl.roles = <<"Moderator", "User">>
    /\ acl.call.action = "Delete"
    /\ Len(acl.call.resources_with_scope) = 2
    /\ acl.call.result

\* the repository was built for a user holding exactly the role User
AskedAsUser == AskedApplication /\ acl.acl.roles = <<"User">>

OwnedBy(id) == [id |-> id]

\* C15: for a user u holding only the role User, can(Users, Read, []) is
\* true, can(Users, Delete, [resource owned by u]) is true, and
\* can(Users, Delete, [resource owned by v]) is false for every v # u.
C15_UserRoleExamples ==
    AskedAsUser /\ acl.call.resource = "Users"
    => LET u == acl.acl.user_id.val
           ctx == acl.call.resources_with_scope
       IN  /\ acl.call.action = "Read" /\ ctx = <<>> => acl.call.result
           /\ acl.call.action = "Delete" /\ ctx = <<OwnedBy(u)>> => acl.call.result
           /\ \A v \in UserIds \ {u} :
                 acl.call.action = "Delete" /\ ctx = <<OwnedBy(v)>> => ~acl.call.result

C15_Witness ==
    /\ AskedAsUser
    /\ acl.acl.user_id = Some(5)
    /\ acl.call.resource = "Users" /\ acl.call.action = "Delete"
    /\ acl.call.resources_with_scope = <<OwnedBy(7)>>
    /\ ~acl.call.result

PermittedInSomeScope(roles, resource, action) ==
    \E i \in 1..Len(roles) :
        /\ roles[i] \in DOMAIN acls
        /\ \E k \in 1..Len(acls[roles[i]]) :
              /\ acls[roles[i]][k].resource = resource
              /\ acls[roles[i]][k].action \in {action, "All"}

\* C17: with an empty list of target contexts the scope of a permission is
\* trivially satisfied: can(u, r, a, []) is true exactly when some role of u
\* has a permission on r with action a or All; a holder of only the role
\* User gets true for can(u, Users, a, []) for every action a.
C17_EmptyContextsSatisfyAnyScope ==
    AskedApplication /\ acl.call.resources_with_scope = <<>>
    => /\ acl.call.result =
              PermittedInSomeScope(acl.acl.roles, acl.call.resource, acl.call.action)
       /\ acl.acl.roles = <<"User">> /\ acl.call.resource = "Users" => acl.call.result

C17_Witness ==
    /\ AskedAsUser
    /\ acl.call.resources_with_scope = <<>>
    /\ acl.call.resource = "Users" /\ acl.call.action = "Delete"
    /\ acl.call.result

\* C18: when the role lookup for the acting user fails the ACL is still
\* built, with an empty role set, and every can on it answers false: the
\* failure is neither an error nor an allow.
C18_FailedLookupDenies ==
    (acl.stage \in {"built", "asked"} /\ acl.acl.lookup_failed)
    => /\ acl.acl.variant = "Application"
       /\ acl.acl.roles = <<>>
       /\ acl.stage = "asked" => acl.call.result = FALSE

C18_Witness ==
    /\ acl.stage = "asked"
    /\ acl.acl.lookup_failed
    /\ acl.asked_as = Some(5)
    /\ user_roles[5] = <<"Superuser">>
    /\ acl.call.resource = "Users" /\ acl.call.action = "Read"
    /\ ~acl.call.result

(***************************************************************************)
(* Roles cache                                                             *)
(***************************************************************************)
\* this step is a call of get(u)
GetStep(u) == last_get' # last_get /\ last_get'.op = "get" /\ last_get'.user = u

\* this step is a call of invalidate(u)
InvalidateStep(u) ==
    last_get' # last_get /\ last_get'.op = "invalidate" /\ last_get'.user = u

\* C19: after invalidate(u) has completed, the next get(u) does not answer
\* from the entry the invalidation dropped: it misses, reads the role store,
\* stores and returns the store's current roles for u; the invalidation
\* leaves the entries of the other users as they were.
C19_GetAfterInvalidateReloads ==
    [][\A u \in UserIds :
          /\ (GetStep(u) /\ last_get.dropped[u].pending)
             => /\ ~last_get'.hit
                /\ last_get'.roles = user_roles[u]
                /\ cached_roles'[u] = Some(user_roles[u])
          /\ InvalidateStep(u)
             => /\ ~cached_roles'[u].some
                /\ \A v \in UserIds \ {u} : cached_roles'[v] = cached_roles[v]]_vars

C19_Witness ==
    /\ last_get.op = "get"
    /\ last_get.after_invalidate
    /\ ~last_get.hit
    /\ last_get.was = Some(<<"User">>)
    /\ last_get.roles = <<"User", "Superuser">>
    /\ cached_roles[last_get.user] = Some(<<"User", "Superuser">>)
    /\ \E v \in UserIds \ {last_get.user} : cached_roles[v] = Some(<<>>)

(***************************************************************************)
(* Route parser                                                            *)
(***************************************************************************)
\* the rule's pattern matches the path
Matches(rule, path) == RouteParser_get_matches(rule.regex, path).some

\* what the rule's extractor makes of the groups its pattern captured
Extracted(rule, path) ==
    Converter_call(rule.converter, RouteParser_get_matches(rule.regex, path).val)

\* the rule's pattern matches the path and its extractor accepts the groups
Accepts(rule, path) == Matches(rule, path) /\ Extracted(rule, path).some

\* the rules that were registered when the path was last resolved
Registered == SubSeq(router.rules, 1, router.at)

\* C21: for two registered rules A (registered first) and B whose patterns
\* both match the path, if A's extractor rejects the captured groups (and no
\* rule registered before B accepts) then resolve returns B's result, not
\* NoMatch.
C21_FallthroughOnReject ==
    (router.stage = "ready" /\ router.tested)
    => \A i, j \in 1..Len(Registered) :
          (/\ i < j
           /\ Matches(Registered[i], router.path)
           /\ Matches(Registered[j], router.path)
           /\ \A k \in 1..(j - 1) : ~Accepts(Registered[k], router.path)
           /\ Accepts(Registered[j], router.path))
          => /\ router.result.some
             /\ router.result = Extracted(Registered[j], router.path)

C21_Witness ==
    /\ router.stage = "ready" /\ router.tested
    /\ router.path = <<"/", "u", "s", "e", "r", "s", "/", "2", "1", "4", "7", "4", "8", "3", "6", "4", "8">>
    /\ Registered = <<RouteParser_rule(Regex_users_id, Converter_user_id),
                      RouteParser_rule(Regex_users_any, Converter_route(Route("Users")))>>
    /\ router.result = Some(Route("Users"))

\* C22: resolve(path) is the value of the earliest-registered rule whose
\* pattern matches and whose extractor accepts; it is NoMatch exactly when
\* no rule both matches and accepts; rules registered after that rule never
\* change the result.
C22_EarliestAcceptingRuleWins ==
    (router.stage = "ready" /\ router.tested)
    => LET accepting == {i \in 1..Len(Registered) : Accepts(Registered[i], router.path)}
       IN  /\ router.result.some <=> accepting # {}
           /\ accepting # {}
              => LET first == CHOOSE i \in accepting : \A k \in accepting : i <= k
                 IN  router.result = Extracted(Registered[first], router.path)
           /\ router.first.some => router.result = router.first

C22_Witness ==
    /\ router.stage = "ready" /\ router.tested
    /\ router.path = <<"/", "u", "s", "e", "r", "s", "/", "4", "2">>
    /\ Len(router.rules) = 3 /\ router.at = 3
    /\ router.rules[1] = RouteParser_rule(Regex_users_current, Converter_route(Route("Current")))
    /\ router.rules[2] = RouteParser_rule(Regex_users_id, Converter_user_id)
    /\ router.rules[3] = RouteParser_rule(Regex_users_any, Converter_route(Route("Users")))
    /\ router.result = Some(Route_User(42))

\* the path is the literal followed by a tail
HasPrefix(path, literal) ==
    Len(path) >= Len(literal) /\ SubSeq(path, 1, Len(literal)) = literal

Rest(path, literal) == SubSeq(path, Len(literal) + 1, Len(path))

\* a non-empty string of the decimal digits 0..9
IsDecimal(ds) == ds # <<>> /\ \A i \in 1..Len(ds) : IsAsciiDigit(ds[i])

\* the number a string of at most nine decimal digits denotes
RECURSIVE DecimalValue(_)
DecimalValue(ds) ==
    IF ds = <<>> THEN 0
    ELSE 10 * DecimalValue(SubSeq(ds, 1, Len(ds) - 1)) + DigitValue(ds[Len(ds)])

RECURSIVE StripZeros(_)
StripZeros(ds) ==
    IF Len(ds) > 1 /\ ds[1] = "0" THEN StripZeros(SubSeq(ds, 2, Len(ds))) ELSE ds

\* the decimal string denotes a number above i32::MAX
AboveI32(ds) ==
    LET sig == StripZeros(ds)
    IN  \/ Len(sig) > 10
        \/ /\ Len(sig) = 10
           /\ LET high == DecimalValue(SubSeq(sig, 1, 9))
              IN  \/ high > I32_MAX \div 10
                  \/ high = I32_MAX \div 10 /\ DigitValue(sig[10]) > I32_MAX % 10

\* the number a decimal string within the i32 range denotes
IdValue(ds) ==
    LET sig == StripZeros(ds)
    IN  IF Len(sig) <= 9 THEN DecimalValue(sig)
        ELSE 10 * DecimalValue(SubSeq(sig, 1, 9)) + DigitValue(sig[10])

\* the path was resolved by the parser create_route_parser builds
ResolvedByTable == router.stage = "table" /\ router.tested

\* C23: with the default route table "/users/" followed by a decimal id n
\* resolves to User(n), and "/users/" followed by text that is not a
\* decimal number and is not "current" resolves to NoMatch.
C23_UsersIdResolution ==
    (ResolvedByTable /\ HasPrefix(router.path, <<"/", "u", "s", "e", "r", "s", "/">>))
    => LET tail == Rest(router.path, <<"/", "u", "s", "e", "r", "s", "/">>)
       IN  /\ (IsDecimal(tail) /\ ~AboveI32(tail))
              => router.result = Some(Route_User(IdValue(tail)))
           /\ (tail # <<>> /\ ~IsDecimal(tail) /\ tail # <<"c", "u", "r", "r", "e", "n", "t">>)
              => router.result = None

C23_Witness ==
    /\ ResolvedByTable
    /\ router.path = <<"/", "u", "s", "e", "r", "s", "/", "4", "2">>
    /\ router.result = Some(Route_User(42))

\* C24: the default route parser resolves every pattern of the route table
\* to its listed Route: the seven literals and numeric patterns of users and
\* jwt, and /user_roles to UserRoles, /user_roles/<digits> to UserRole(id),
\* /roles/default/<digits> to DefaultRole(userId).
C24_EveryTablePatternResolves ==
    ResolvedByTable
    => LET numbered(literal, name) ==
               (/\ HasPrefix(router.path, literal)
                /\ IsDecimal(Rest(router.path, literal))
                /\ ~AboveI32(Rest(router.path, literal)))
               => router.result =
                     Some([name |-> name, id |-> IdValue(Rest(router.path, literal))])
           literal(path, name) == router.path = path => router.result = Some(Route(name))
       IN  /\ literal(<<"/", "h", "e", "a", "l", "t", "h", "c", "h", "e", "c", "k">>, "Healthcheck")
           /\ literal(<<"/", "u", "s", "e", "r", "s">>, "Users")
           /\ numbered(<<"/", "u", "s", "e", "r", "s", "/">>, "User")
           /\ literal(<<"/", "u", "s", "e", "r", "s", "/">> \o <<"c", "u", "r", "r", "e", "n", "t">>, "Current")
           /\ literal(<<"/", "j", "w", "t", "/", "e", "m", "a", "i", "l">>, "JWTEmail")
           /\ literal(<<"/", "j", "w", "t", "/", "g", "o", "o", "g", "l", "e">>, "JWTGoogle")
           /\ literal(<<"/", "j", "w", "t", "/", "f", "a", "c", "e", "b", "o", "o", "k">>, "JWTFacebook")
           /\ literal(<<"/", "u", "s", "e", "r", "_", "r", "o", "l", "e", "s">>, "UserRoles")
           /\ numbered(<<"/", "u", "s", "e", "r", "_", "r", "o", "l", "e", "s", "/">>, "UserRole")
           /\ numbered(<<"/", "r", "o", "l", "e", "s", "/", "d", "e", "f", "a", "u", "l", "t", "/">>, "DefaultRole")

\* C29: with the default route table a path "/users/<digits>" whose digits
\* denote a value above the 32-bit signed range matches the numeric pattern
\* and is rejected by the extractor: resolve returns NoMatch.
C29_OutOfRangeIdIsNoMatch ==
    (/\ ResolvedByTable
     /\ HasPrefix(router.path, <<"/", "u", "s", "e", "r", "s", "/">>)
     /\ IsDecimal(Rest(router.path, <<"/", "u", "s", "e", "r", "s", "/">>))
     /\ AboveI32(Rest(router.path, <<"/", "u", "s", "e", "r", "s", "/">>)))
    => /\ Matches(RouteParser_rule(Regex_users_id, Converter_user_id), router.path)
       /\ ~Accepts(RouteParser_rule(Regex_users_id, Converter_user_id), router.path)
       /\ router.result = None

C29_Witness ==
    /\ ResolvedByTable
    /\ router.path = <<"/", "u", "s", "e", "r", "s", "/", "2", "1", "4", "7", "4", "8", "3", "6", "4", "8">>
    /\ router.result = None

(***************************************************************************)
(* Provider sign-in and the stores                                         *)
(***************************************************************************)
ProviderKinds == {"google", "facebook"}

\* pipeline r made a call to a store in this step
Called(r) == Len(req'[r].log) > Len(req[r].log)

\* C25: after one successful provider sign-in with a profile email and a
\* provider, on any branch, a later sign-in with the same profile and
\* provider finds the (email, provider) Identity, takes the returning-user
\* branch and writes neither a User nor an Identity.
C25_ProviderSignInIsIdempotent ==
    [][\A r1, r2 \in Reqs :
          (/\ r1 # r2
           /\ req[r1].kind \in ProviderKinds
           /\ req[r1].pc = "done" /\ Succeeded(r1)
           /\ req[r2].kind = req[r1].kind
           /\ req[r2].email = req[r1].email
           /\ req[r2].pc = "email_exists"
           /\ Called(r2))
          => /\ req'[r2].exists
             /\ req'[r2].pc = "done"
             /\ users' = users /\ identities' = identities]_vars

\* pipeline r wrote its User and its Identity write failed or has not run
UserWithoutIdentity(r) ==
    /\ req[r].kind \in ProviderKinds
    /\ \/ req[r].pc = "create_profile_identity"
       \/ req[r].pc = "done" /\ req[r].result = Err(StepError("create_profile_identity"))

\* C26: in the provider new-user branch the User write and the Identity
\* write are separate steps with no rollback: a pipeline whose Identity
\* write failed (or never ran) after its User write ends in an error with
\* the User persisted and no Identity for it, and a later sign-in with the
\* same profile takes the existing-User branch and creates no second User.
C26_NoRollbackOfTheUserWrite ==
    /\ [](\A r \in Reqs :
            UserWithoutIdentity(r)
            => /\ req[r].user_id \in 1..Len(users)
               /\ users[req[r].user_id].email = req[r].email
               /\ \A i \in 1..Len(identities) : identities[i].user_id # req[r].user_id
               /\ req[r].pc = "done" => Failed(r))
    /\ [][\A r1, r2 \in Reqs :
            (/\ r1 # r2
             /\ UserWithoutIdentity(r1)
             /\ req[r2].kind \in ProviderKinds
             /\ req[r2].email = req[r1].email
             /\ \/ req[r2].pc = "create_or_update_profile" /\ Called(r2)
                \/ req[r2].pc = "update_profile" /\ req[r2].email_exist /\ Called(r2))
            => /\ req'[r2].email_exist
               /\ req'[r2].pc \in {"update_profile", "update_profile_update", "done"}
               /\ Len(users') = Len(users)]_vars

C26_Witness ==
    \E r1, r2 \in Reqs :
        /\ req[r1].kind \in ProviderKinds
        /\ req[r1].pc = "done"
        /\ req[r1].result = Err(StepError("create_profile_identity"))
        /\ req[r2].kind = req[r1].kind
        /\ req[r2].email = req[r1].email
        /\ req[r2].pc = "update_profile"
        /\ req[r2].email_exist
        /\ Cardinality(UsersWith(req[r1].email)) = 1
        /\ IdentitiesWith(req[r1].email, "Facebook") = {}

(***************************************************************************)
(* Users listing: http_utils::query_params and UsersService::list          *)
(***************************************************************************)
\* common::MAX_USER_COUNT
MAX_USER_COUNT == 50

I32_MIN == -I32_MAX - 1

RECURSIVE parse_digits_negative(_, _)

\* the digit loop of i32::from_str after a minus sign: checked_mul(10) then
\* checked_sub(digit)
parse_digits_negative(ds, acc) ==
    IF ds = <<>> THEN Some(acc)
    ELSE IF ~IsAsciiDigit(Head(ds)) THEN None
    ELSE LET d == DigitValue(Head(ds))
         IN  IF acc < -(I32_MAX \div 10) THEN None
             ELSE IF acc * 10 < I32_MIN + d THEN None
             ELSE parse_digits_negative(Tail(ds), acc * 10 - d)

\* v.parse::<i32>().ok()
parse_i32_signed(string) ==
    IF string = <<>> THEN None
    ELSE IF Head(string) = "-"
    THEN IF Tail(string) = <<>> THEN None ELSE parse_digits_negative(Tail(string), 0)
    ELSE IF Head(string) = "+"
    THEN IF Tail(string) = <<>> THEN None ELSE parse_digits(Tail(string), 0)
    ELSE parse_digits(string, 0)

\* the decimal digits of i64::MAX; those of i64::MIN end in 8
I64_MAX_DIGITS ==
    <<"9", "2", "2", "3", "3", "7", "2", "0", "3", "6",
      "8", "5", "4", "7", "7", "5", "8", "0", "7">>

I64_MIN_DIGITS == [I64_MAX_DIGITS EXCEPT ![19] = "8"]

\* a < b for numbers written without leading zeros
DigitsLess(a, b) ==
    \/ Len(a) < Len(b)
    \/ /\ Len(a) = Len(b)
       /\ \E i \in 1..Len(a) :
             /\ DigitValue(a[i]) < DigitValue(b[i])
             /\ \A j \in 1..(i - 1) : a[j] = b[j]

\* an i64 as its sign and its decimal digits without leading zeros
I64(negative, digits) == [negative |-> negative, digits |-> digits]

\* v.parse::<i64>().ok(): an optional sign, then digits, checked for overflow
parse_i64(string) ==
    LET signed == string # <<>> /\ Head(string) \in {"+", "-"}
        negative == string # <<>> /\ Head(string) = "-"
        ds == IF signed THEN Tail(string) ELSE string
    IN  IF ds = <<>> \/ \E i \in 1..Len(ds) : ~IsAsciiDigit(ds[i]) THEN None
        ELSE LET digits == StripZeros(ds)
                 limit == IF negative THEN I64_MIN_DIGITS ELSE I64_MAX_DIGITS
             IN  IF DigitsLess(limit, digits) THEN None
                 ELSE Some(I64(negative, digits))

\* y < n for an i64 y and a constant 0 <= n <= i32::MAX
I64_lt(y, n) ==
    \/ y.negative /\ y.digits # <<"0">>
    \/ Len(y.digits) <= 9 /\ DecimalValue(y.digits) < n

HashMap_new == [key \in {} |-> <<>>]

HashMap_insert(self, key, value) ==
    [k \in DOMAIN self \cup {key} |-> IF k = key THEN value ELSE self[k]]

HashMap_get(self, key) == IF key \in DOMAIN self THEN Some(self[key]) ELSE None

RECURSIVE insert_pairs(_, _)

\* the loop of query_params: split[1] is out of bounds for a pair without "="
insert_pairs(pairs, params) ==
    IF pairs = <<>> THEN Ok(params)
    ELSE LET parts == split(Head(pairs), "=")
         IN  IF Len(parts) < 2 THEN Panic
             ELSE insert_pairs(Tail(pairs), HashMap_insert(params, parts[1], parts[2]))

\* http_utils::query_params
query_params(query) == insert_pairs(split(query, "&"), HashMap_new)

\* ApiError::BadRequest; the messages are written without their backquotes
BadRequest(message) == <<"BadRequest", message>>

list_guard_nonnegative(x, y) == x >= 0 /\ I64_lt(y, MAX_USER_COUNT)

\* the guard of the match on (from, count)
list_guard(x, y) == x > 0 /\ I64_lt(y, MAX_USER_COUNT)

\* UsersService::list on the request's query; repo_ok is whether
\* users_repo.list succeeds.  The value is the response and the calls made
\* to the repository.
UsersService_list(query, repo_ok) ==
    IF ~query.some
    THEN [result |-> Err(BadRequest("Missing query parameters: from, count")),
          calls |-> <<>>]
    ELSE LET params == query_params(query.val)
         IN  IF params = Panic THEN [result |-> Panic, calls |-> <<>>]
             ELSE LET from == IF HashMap_get(params.value, <<"f", "r", "o", "m">>).some
                              THEN parse_i32_signed(HashMap_get(params.value, <<"f", "r", "o", "m">>).val)
                              ELSE None
                      count == IF HashMap_get(params.value, <<"c", "o", "u", "n", "t">>).some
                               THEN parse_i64(HashMap_get(params.value, <<"c", "o", "u", "n", "t">>).val)
                               ELSE None
                  IN  IF from.some /\ count.some /\ list_guard(from.val, count.val)
                      THEN [result |-> IF repo_ok THEN Ok("users")
                                       ELSE Err(<<"Repo", "users.list">>),
                            calls |-> <<[from |-> from.val, count |-> count.val]>>]
                      ELSE [result |-> Err(BadRequest(
                                           "Invalid values provided for from or count")),
                            calls |-> <<>>]

\* GET /users: the handler answers the request
list ==
    /\ listing.stage = "ready"
    /\ \E repo_ok \in BOOLEAN :
          LET answer == UsersService_list(listing.query, repo_ok)
          IN  listing' = [listing EXCEPT !.stage = "done", !.result = answer.result,
                                          !.calls = answer.calls]
    /\ UNCHANGED <<users, identities, req, pv, authvars, router, factory>>

\* the pairs the query strings of the requests are made of
QueryPairs ==
    {<<"f", "r", "o", "m", "=", "1">>,
     <<"f", "r", "o", "m", "=", "0">>,
     <<"f", "r", "o", "m", "=", "-", "1">>,
     <<"f", "r", "o", "m", "=", "+", "2">>,
     <<"f", "r", "o", "m", "=", "x">>,
     <<"f", "r", "o", "m">>,
     <<"f", "r", "o", "m", "=", "1", "=", "2">>,
     <<"f", "r", "o", "m", "=", "2", "1", "4", "7", "4", "8", "3", "6", "4", "8">>,
     <<>>,
     <<"c", "o", "u", "n", "t", "=", "5">>,
     <<"c", "o", "u", "n", "t", "=", "4", "9">>,
     <<"c", "o", "u", "n", "t", "=", "5", "0">>,
     <<"c", "o", "u", "n", "t", "=", "-", "3">>,
     <<"c", "o", "u", "n", "t", "=", "x">>,
     <<"c", "o", "u", "n", "t", "=", "2", "1", "4", "7", "4", "8", "3", "6", "4", "8">>,
     <<"c", "o", "u", "n", "t", "=", "9", "2", "2", "3", "3", "7", "2", "0", "3", "6", "8", "5", "4", "7", "7", "5", "8", "0", "8">>}

RECURSIVE join(_, _)
join(strings, separator) ==
    IF Len(strings) = 1 THEN strings[1]
    ELSE strings[1] \o <<separator>> \o join(Tail(strings), separator)

Queries == {join(pairs, "&") : pairs \in SeqsUpTo(QueryPairs, MaxPairs) \ {<<>>}}

ListInit ==
    /\ req = [r \in Reqs |-> Idle]
    /\ pv = PvOff
    /\ users = <<>>
    /\ identities = <<>>
    /\ AuthOff
    /\ router = RouterOff
    /\ factory = FactoryOff
    /\ \E query \in {None} \cup {Some(q) : q \in Queries} :
          listing = [stage |-> "ready", query |-> query,
                     result |-> [kind |-> "pending"], calls |-> <<>>]

ListNext == list

ListSpec == ListInit /\ [][ListNext]_vars

\* every pair of the query has a name and a value
WellFormed(query) ==
    \A i \in 1..Len(split(query, "&")) :
        \E j \in 1..Len(split(query, "&")[i]) : split(query, "&")[i][j] = "="

\* the string is an optional plus sign and a decimal number of the i32 range
\* above zero
PositiveI32(string) ==
    LET ds == IF string # <<>> /\ Head(string) = "+" THEN Tail(string) ELSE string
    IN  IsDecimal(ds) /\ ~AboveI32(ds) /\ IdValue(ds) > 0

\* the query supplies from and count within the limits of the listing
Supplies(params) ==
    /\ <<"f", "r", "o", "m">> \in DOMAIN params /\ PositiveI32(params[<<"f", "r", "o", "m">>])
    /\ <<"c", "o", "u", "n", "t">> \in DOMAIN params
    /\ parse_i64(params[<<"c", "o", "u", "n", "t">>]).some
    /\ I64_lt(parse_i64(params[<<"c", "o", "u", "n", "t">>]).val, MAX_USER_COUNT)

IsBadRequest(result) == result.kind = "err" /\ result.error[1] = "BadRequest"

C28_ListNeverCrashes ==
    listing.stage = "done"
    => /\ listing.result.kind \in {"ok", "err"}
       /\ (listing.query.some /\ ~WellFormed(listing.query.val))
          => IsBadRequest(listing.result)

(***************************************************************************)
(* The repository factory's call chain.  factory.stack holds the calls in  *)
(* progress (innermost last), each with the index of the next call its     *)
(* body makes; factory.trace lists the calls in the order they were made.  *)
(***************************************************************************)
FactoryFunctions ==
    {"create_users_repo", "create_user_roles_repo",
     "create_users_repo_with_sys_acl", "create_user_roles_repo_with_sys_acl"}

Callees_through_acl(fn, user_id) ==
    CASE fn \in {"create_users_repo", "create_user_roles_repo"} -> <<"get_acl">>
      [] fn = "get_acl" -> IF user_id.some THEN <<"get_roles">> ELSE <<>>
      [] fn = "get_roles" -> <<"create_user_roles_repo", "list_for_user">>
      [] OTHER -> <<>>

\* the calls the body of each function of the factory makes, in order
Callees(fn, user_id) ==
    CASE fn \in {"create_users_repo", "create_user_roles_repo"} -> <<"get_acl">>
      [] fn = "get_acl" -> IF user_id.some THEN <<"get_roles">> ELSE <<>>
      [] fn = "get_roles" -> <<"create_user_roles_repo_with_sys_acl", "list_for_user">>
      [] OTHER -> <<>>

Frame(fn) == [fn |-> fn, at |-> 1]

\* a service asks the factory for a repository
factory_enter ==
    /\ factory.stage = "ready"
    /\ \E fn \in FactoryFunctions, user_id \in {None} \cup {Some(id) : id \in UserIds} :
          factory' = [factory EXCEPT !.stage = "running", !.entry = fn,
                                     !.user_id = user_id,
                                     !.stack = <<Frame(fn)>>, !.trace = <<fn>>]
    /\ UNCHANGED <<users, identities, req, pv, authvars, router, listing>>

\* the innermost call in progress makes the next call of its body
factory_call ==
    /\ factory.stage = "running"
    /\ Len(factory.stack) < MaxDepth
    /\ LET depth == Len(factory.stack)
           top == factory.stack[depth]
           callees == Callees(top.fn, factory.user_id)
       IN  /\ top.at <= Len(callees)
           /\ factory' = [factory EXCEPT
                             !.stack = Append([@ EXCEPT ![depth].at = top.at + 1],
                                              Frame(callees[top.at])),
                             !.trace = Append(@, callees[top.at])]
    /\ UNCHANGED <<users, identities, req, pv, authvars, router, listing>>

\* the innermost call in progress has made every call of its body and
\* returns; list_for_user returns the outcome of the query, get_roles the
\* roles it made of it, the outermost call the repository
factory_return ==
    /\ factory.stage = "running"
    /\ LET depth == Len(factory.stack)
           top == factory.stack[depth]
       IN  /\ top.at > Len(Callees(top.fn, factory.user_id))
           /\ \E db_ok \in BOOLEAN :
                 factory' = [factory EXCEPT
                     !.stack = SubSeq(@, 1, depth - 1),
                     !.stage = IF depth = 1 THEN "built" ELSE @,
                     !.lookup = IF top.fn = "list_for_user"
                                THEN Some(list_for_user(factory.user_id.val, db_ok))
                                ELSE @,
                     !.roles = IF top.fn = "get_roles"
                               THEN Some(get_roles(factory.lookup.val))
                               ELSE @]
    /\ UNCHANGED <<users, identities, req, pv, authvars, router, listing>>

FactoryInit ==
    /\ req = [r \in Reqs |-> Idle]
    /\ pv = PvOff
    /\ users = <<>>
    /\ identities = <<>>
    /\ mg = MgOff
    /\ acl = AclOff
    /\ cached_roles = <<>>
    /\ last_get = NoGet
    /\ user_roles \in [UserIds -> RoleVecs]
    /\ router = RouterOff
    /\ listing = ListingOff
    /\ factory = [stage |-> "ready", entry |-> "none", user_id |-> None,
                  stack |-> <<>>, trace |-> <<>>, lookup |-> None, roles |-> None]

FactoryNext == factory_enter \/ factory_call \/ factory_return

\* the chain is straight-line code: a call in progress goes on
FactorySpec == FactoryInit /\ [][FactoryNext]_vars /\ WF_vars(FactoryNext)

\* the positions of the calls of fn in the chain
CallsOf(fn) == {i \in 1..Len(factory.trace) : factory.trace[i] = fn}

\* the factory runs, or has run, for an authenticated user and a repository
\* that takes the user's ACL
ForAuthenticatedUser ==
    /\ factory.stage \in {"running", "built"}
    /\ factory.entry \in {"create_users_repo", "create_user_roles_repo"}
    /\ factory.user_id.some

\* C30: building a repository for an authenticated user terminates with a
\* finite call chain: get_acl performs exactly one role lookup, the lookup
\* goes through the role repository built with the System ACL, and building
\* that repository never calls get_acl again.
C30_FactoryChainIsFinite ==
    /\ [](ForAuthenticatedUser
          => /\ Len(factory.stack) <= 4
             /\ Cardinality(CallsOf("get_acl")) <= 1
             /\ Cardinality(CallsOf("list_for_user")) <= 1
             /\ \A i \in CallsOf("list_for_user") :
                   /\ factory.trace[i - 1] = "create_user_roles_repo_with_sys_acl"
                   /\ factory.trace[i - 2] = "get_roles"
             /\ \A i \in CallsOf("create_user_roles_repo_with_sys_acl") :
                   \A j \in CallsOf("get_acl") : j < i
             /\ factory.stage = "built"
                => /\ Cardinality(CallsOf("get_acl")) = 1
                   /\ Cardinality(CallsOf("list_for_user")) = 1
                   /\ factory.roles.some)
    /\ <>(factory.stage = "built")

C30_Witness ==
    /\ factory.stage = "built"
    /\ factory.entry = "create_users_repo"
    /\ factory.user_id = Some(5)
    /\ factory.trace = <<"create_users_repo", "get_acl", "get_roles",
                         "create_user_roles_repo_with_sys_acl", "list_for_user">>
    /\ factory.lookup.val.kind = "err"
    /\ factory.roles = Some(<<>>)

====
